---- MODULE Spec2Model ----
(***************************************************************************)
(* Model of the place pipeline of src/midpoint.ts (the script that starts  *)
(* at line 241): load the registry, reset the current flags, fetch every   *)
(* list in its own tab with retry, merge the batches, sweep, geocode,      *)
(* save.                                                                   *)
(***************************************************************************)
EXTENDS Integers, Sequences, FiniteSets, TLC

\* ------------------------------------------------------------------ bounds
NumSources == 2        \* urlsToScrape.length
MaxTabsArg == 2        \* largest --maxTabs value explored (0 is explored too)
MaxPlacesOnPage == 2   \* longest placesFromPage list explored
ExtraLookups == 1      \* places to geocode beyond the limit of the limiter
MaxPoints == 3         \* longest coords array given to the solver

\* ------------------------------------------------------- program constants
DefaultMaxRetries == 2 \* processUrlInTabWithRetry, maxRetries default
GeocodeLimit == 10     \* pLimit(10)
DefaultMaxTabs == 4    \* --maxTabs default, unused in sequential mode
DefaultMaxIter == 500  \* geometricMedianOnSphere, maxIter default

\* ------------------------------------------------------------------ values
Sources == 1..NumSources
Names == {"A", "B"}
EmptyName == ""
Undefined == "undefined"
NoLatLng == <<>>

\* a latitude or longitude is a whole number of 1e-7 degrees
Degrees(d) == d * 10000000

\* the h1 text of the list behind the s-th url
ListName(s) == "S" \o ToString(s)
\* a label left in the persisted file by a list that is no longer scraped
OldListName == "S0"

EmptyPlaces == [n \in {} |-> 0]

\* SavedPlace: optional fields hold Undefined / NoLatLng when missing
SavedPlace(categories, current, closed, address, latLng) ==
    [categories |-> categories, current |-> current, permanentlyClosed |-> closed,
     address |-> address, latLng |-> latLng]

\* what the forward geocoder answers for a place name when it finds a match:
\* points some centimetres apart on the equator, south or north of it for
\* the first name and north of it for the others
GeocodeResults(placeName) ==
    {[address |-> "addr", latLng |-> <<lat, Degrees(13)>>] :
        lat \in IF placeName = "A" THEN {-1, 1} ELSE {4}}

\* the entries a persisted file may hold for one name: a place enriched and
\* saved by an earlier run, and a place saved by a run that had no API key
PersistedPlaces ==
    {SavedPlace(<<OldListName>>, TRUE, FALSE, "addr", <<Degrees(52), Degrees(13)>>),
     SavedPlace(<<ListName(1)>>, TRUE, TRUE, Undefined, NoLatLng)}

PersistedFiles ==
    UNION {[D -> PersistedPlaces] : D \in SUBSET Names}

\* placesFromPage: lists of {name, permanentlyClosed}, the name may be empty
PageEntries == [name : Names \cup {EmptyName}, permanentlyClosed : BOOLEAN]
PagesUpTo(k) == UNION {[1..i -> PageEntries] : i \in 0..k}
Pages == PagesUpTo(MaxPlacesOnPage)

\* lines 443 and 449: { savedPlaces: {}, permanentlyClosedPlaces: {} }
EmptyBatch == [savedPlaces |-> EmptyPlaces]

\* ------------------------------------------------------------------- state
VARIABLES
    disk,         \* the places file: [state: "ok"|"absent"|"corrupt", data]
    savedPlaces,  \* the in-memory registry of main
    pc,           \* position of main
    parallel,     \* argv.parallel
    maxTabs,      \* argv.maxTabs
    apiKey,       \* API_KEY is non-empty
    browserOpen,  \* puppeteer browser launched and not yet closed
    status,       \* per source: "queued" | "running" | "waiting" | "done"
    attempt,      \* per source: the attempt number of processUrlInTabWithRetry,
                  \* 0 when the source is not being fetched
    outcome,      \* per source: how the last attempt of processUrlInTab ended
    results,      \* per source: the batch returned to main
    mergeIdx,     \* number of batches already merged
    geo,          \* per place to geocode: "queued"|"running"|"found"|"failed"
    errors,       \* the failures logged so far: "launch", "phase", "save"
    writes,       \* number of times the places file has been written
    solverCalls,  \* the calls of centerOfMinimumDistance made so far
    solver,       \* a call of geometricMedianOnSphere: its argument, its
                  \* position, its locals p and k, its seed and its result
    tab,          \* per source: the position of its attempt in processUrlInTab
    pages,        \* per source: the pages its attempts opened and did not close
    earlier       \* what the run before this one left behind, NoEarlierRun
                  \* for a first run

vars == <<disk, savedPlaces, pc, parallel, maxTabs, apiKey, browserOpen,
          status, attempt, outcome, results, mergeIdx, geo, errors, writes,
          solverCalls, solver, tab, pages, earlier>>

mainVars == <<parallel, maxTabs, apiKey>>
fetchVars == <<status, attempt, outcome, results>>
logVars == <<errors, writes>>
tabVars == <<tab, pages>>
tailVars == <<solverCalls, solver, tabVars, earlier>>
pipelineVars == <<disk, savedPlaces, pc, parallel, maxTabs, apiKey, browserOpen,
                  status, attempt, outcome, results, mergeIdx, geo, errors, writes,
                  solverCalls, tabVars, earlier>>

\* --------------------------------------------------------- pure operators
RemoveKey(places, name) == [n \in DOMAIN places \ {name} |-> places[n]]

SetKey(places, name, value) ==
    [n \in DOMAIN places \cup {name} |-> IF n = name THEN value ELSE places[n]]

Includes(seq, x) == \E i \in 1..Len(seq) : seq[i] = x

\* processUrlInTab, lines 666-675: the local batch built from the page (the
\* per-list record of closed places, lines 676-681, is only logged)
RECURSIVE ScrapeInto(_, _, _, _)
ScrapeInto(localSavedPlaces, listName, placesFromPage, i) ==
    IF i > Len(placesFromPage) THEN localSavedPlaces
    ELSE LET placeName == placesFromPage[i].name
             permanentlyClosed == placesFromPage[i].permanentlyClosed
         IN IF placeName = EmptyName
            THEN ScrapeInto(localSavedPlaces, listName, placesFromPage, i + 1)
            ELSE ScrapeInto(SetKey(localSavedPlaces, placeName,
                                   SavedPlace(<<listName>>, TRUE, permanentlyClosed,
                                              Undefined, NoLatLng)),
                            listName, placesFromPage, i + 1)

Scrape(listName, placesFromPage) ==
    [savedPlaces |-> ScrapeInto(EmptyPlaces, listName, placesFromPage, 1)]

\* every list label a batch carries
BatchLabels(batch) ==
    UNION {{batch.savedPlaces[n].categories[i] :
                i \in 1..Len(batch.savedPlaces[n].categories)} :
           n \in DOMAIN batch.savedPlaces}

\* variant: the categories of the batch replace the stored ones
MergeCategoriesReplace(categories, newCategories, i) == newCategories

\* variant: a new category is put in front of the stored ones
MergeCategoriesUnshift(categories, newCategories, i) ==
    SelectSeq(newCategories, LAMBDA c : ~Includes(categories, c)) \o categories

\* variant: every category is pushed, included or not
MergeCategoriesAlwaysPush(categories, newCategories, i) == categories \o newCategories

\* main, lines 835-839: push every category that is not yet included
RECURSIVE MergeCategories(_, _, _)
MergeCategories(categories, newCategories, i) ==
    IF i > Len(newCategories) THEN categories
    ELSE MergeCategories(IF Includes(categories, newCategories[i]) THEN categories
                         ELSE Append(categories, newCategories[i]),
                         newCategories, i + 1)

\* variant: the update branch leaves permanentlyClosed as it was stored
MergePlaceKeepsClosed(places, placeName, place) ==
    IF placeName \notin DOMAIN places
    THEN SetKey(places, placeName, [place EXCEPT !.current = TRUE])
    ELSE [places EXCEPT ![placeName] =
            [@ EXCEPT !.current = TRUE,
                      !.categories = MergeCategories(@, place.categories, 1)]]

\* variant: the entry of the batch replaces the stored place
MergePlaceReplaces(places, placeName, place) ==
    SetKey(places, placeName, [place EXCEPT !.current = TRUE])

\* main, lines 827-840: one entry of a tab's batch merged into the registry
MergePlace(places, placeName, place) ==
    IF placeName \notin DOMAIN places
    THEN SetKey(places, placeName, [place EXCEPT !.current = TRUE])
    ELSE [places EXCEPT ![placeName] =
            [@ EXCEPT !.current = TRUE,
                      !.permanentlyClosed = place.permanentlyClosed,
                      !.categories = MergeCategories(@, place.categories, 1)]]

\* main, lines 826-841: every entry of tabPlaces, in Object.entries order
RECURSIVE MergeEntries(_, _, _)
MergeEntries(places, tabPlaces, todo) ==
    IF todo = {} THEN places
    ELSE LET placeName == CHOOSE n \in todo : TRUE
         IN MergeEntries(MergePlace(places, placeName, tabPlaces[placeName]),
                         tabPlaces, todo \ {placeName})

MergeBatch(places, batch) ==
    MergeEntries(places, batch.savedPlaces, DOMAIN batch.savedPlaces)

\* main, line 824: the batches of `batches` merged one after the other, the
\* k first of them in the order `order` (main merges in the order of results)
RECURSIVE MergeInOrder(_, _, _, _)
MergeInOrder(places, batches, order, k) ==
    IF k = 0 THEN places
    ELSE MergeBatch(MergeInOrder(places, batches, order, k - 1), batches[order[k]])

\* the order of results, which is the order of urlsToScrape
UrlOrder == [s \in Sources |-> s]

\* every order in which the batches could be merged
MergeOrders == {f \in [Sources -> Sources] : \A s, t \in Sources : f[s] = f[t] => s = t}

\* variant: the flags of the loaded places are left as they were saved
ResetCurrentSkipped(places) == places

\* main, line 776
ResetCurrent(places) == [n \in DOMAIN places |-> [places[n] EXCEPT !.current = FALSE]]

\* variant: the places that were not seen stay in the registry
SweepNothing(places) == places

\* main, lines 857-867
PlacesToRemove(places) == {n \in DOMAIN places : ~places[n].current}
SweepPlaces(places) == [n \in DOMAIN places \ PlacesToRemove(places) |-> places[n]]

\* variant: every place of the registry is to be geocoded
PlacesToGeocodeAll(places) == DOMAIN places

\* main, lines 871-873
PlacesToGeocode(places) ==
    {n \in DOMAIN places : places[n].latLng = NoLatLng \/ places[n].address = Undefined}

\* readPlacesFromDisk, lines 749-758
ReadPlacesFromDisk(file) == IF file.state = "ok" THEN file.data ELSE EmptyPlaces

\* ------------------------------------------------------------------ limiter
\* variant: the limiter lets one task too many through
LimitHasSlotOffByOne(activeCount, concurrency) == activeCount <= concurrency

\* p-limit: a queued task starts when fewer than `concurrency` tasks run
LimitHasSlot(activeCount, concurrency) == activeCount < concurrency

\* p-limit rejects a concurrency that is not an integer from 1 up
LimitAccepts(concurrency) == concurrency >= 1

\* variant: a task gives its slot back while it waits for its next attempt
ActiveWhileRunning == {s \in Sources : status[s] = "running"}

\* the tasks the limiter has started and that have not returned: an attempt
\* in progress, or the delay of line 447 before the next attempt
Active == {s \in Sources : status[s] \in {"running", "waiting"}}

\* main, line 798
ParallelMode == parallel /\ NumSources > 1

\* variant: main goes on as soon as one source has returned
AnySettled == \E s \in Sources : status[s] = "done"

\* Promise.all of line 806 / end of the loop of line 814
AllSettled == \A s \in Sources : status[s] = "done"

\* ------------------------------------------------ the solver's arithmetic
\* The solver computes in doubles; here a number is an integer count of
\* thousandths (vector components), of milliradians (angles) or of whole
\* degrees (arguments of the trigonometric functions), or it is NaN.
NaN == -2147483647

IsNaN(x) == x = NaN

\* 1.0 as a vector component
One == 1000

\* pi in milliradians
Pi == 3142

Abs(x) == IF x < 0 THEN -x ELSE x

Max(a, b) == IF a >= b THEN a ELSE b

Min(a, b) == IF a <= b THEN a ELSE b

\* F of the value of x: x is evaluated once, whatever F does with it
Once(F(_), x) == CHOOSE r \in {F(value) : value \in {x}} : TRUE

\* a / b rounded to the nearest representable number, b > 0
RoundDiv(a, b) == (a + b \div 2) \div b

\* Math.sin of 0..90 degrees, in thousandths
SinTable ==
    <<0, 17, 35, 52, 70, 87, 105, 122, 139, 156, 174, 191, 208,
      225, 242, 259, 276, 292, 309, 326, 342, 358, 375, 391, 407, 423,
      438, 454, 469, 485, 500, 515, 530, 545, 559, 574, 588, 602, 616,
      629, 643, 656, 669, 682, 695, 707, 719, 731, 743, 755, 766, 777,
      788, 799, 809, 819, 829, 839, 848, 857, 866, 875, 883, 891, 899,
      906, 914, 921, 927, 934, 940, 946, 951, 956, 961, 966, 970, 974,
      978, 982, 985, 988, 990, 993, 995, 996, 998, 999, 999, 1000, 1000>>

\* Math.sin of an angle in whole degrees
SinDeg(d) ==
    LET r == (d + 720) % 360
    IN IF r <= 90 THEN SinTable[r + 1]
       ELSE IF r <= 180 THEN SinTable[181 - r]
       ELSE IF r <= 270 THEN -SinTable[r - 179]
       ELSE -SinTable[361 - r]

\* Math.cos of an angle in whole degrees
CosDeg(d) == SinDeg(d + 90)

\* Math.sqrt of a number below 2^31, rounded down: the multiple of 216 at
\* or below the root, then the root itself
Sqrt(n) ==
    Once(LAMBDA m :
             Once(LAMBDA h :
                      CHOOSE r \in (216 * h)..Min(216 * h + 215, 46340) :
                          /\ r * r <= m
                          /\ r = 46340 \/ m < (r + 1) * (r + 1),
                  CHOOSE i \in 0..214 :
                      /\ (216 * i) * (216 * i) <= m
                      /\ i = 214 \/ m < (216 * i + 216) * (216 * i + 216)),
         n)

\* Math.acos of 0..1 in thousandths, in milliradians:
\* sqrt(1 - x) * (1.570729 - 0.212114 x + 0.074261 x^2 - 0.018729 x^3)
AcosOfPositive(x) ==
    LET t3 == 0 - 18729
        t2 == 74261 + RoundDiv(x * t3, One)
        t1 == RoundDiv(x * t2, One) - 212114
        t0 == 1570729 + RoundDiv(x * t1, One)
    IN RoundDiv(Sqrt((One - x) * One) * t0, 1000000)

\* Math.acos
Acos(x) ==
    Once(LAMBDA c : IF IsNaN(c) THEN NaN
                    ELSE IF c < 0 THEN Pi - AcosOfPositive(-c)
                    ELSE AcosOfPositive(c),
         x)

\* line 169: Math.max and Math.min give NaN for NaN
Clamp(v, a, b) == Once(LAMBDA c : IF IsNaN(c) THEN NaN ELSE Min(Max(c, a), b), v)

NaNVec == <<NaN, NaN, NaN>>

IsNaNVec(v) == \E i \in 1..3 : IsNaN(v[i])

\* the whole degrees of a coordinate
WholeDegrees(x) == x \div 10000000

\* lines 174-178
LlToVec(coord) ==
    LET lat == WholeDegrees(coord[1])
        lng == WholeDegrees(coord[2])
    IN <<RoundDiv(CosDeg(lat) * CosDeg(lng), One),
         RoundDiv(CosDeg(lat) * SinDeg(lng), One),
         SinDeg(lat)>>

\* the angle of 0..90 degrees, the smallest of them, with the largest
\* a cos d + b sin d: the direction of (a, b) for a >= 0, b >= 0
AngleInQuadrant(b, a) ==
    Once(LAMBDA f : CHOOSE d \in 0..90 :
                        \A e \in 0..90 : f[e] < f[d] \/ (f[e] = f[d] /\ d <= e),
         [d \in 0..90 |-> a * CosDeg(d) + b * SinDeg(d)])

\* Math.atan2 in whole degrees; Math.atan2(0, 0) is 0
Atan2Deg(y, x) ==
    IF x = 0 /\ y = 0 THEN 0
    ELSE IF x >= 0 /\ y >= 0 THEN AngleInQuadrant(y, x)
    ELSE IF x < 0 /\ y >= 0 THEN 180 - AngleInQuadrant(y, -x)
    ELSE IF x < 0 THEN AngleInQuadrant(-y, -x) - 180
    ELSE 0 - AngleInQuadrant(-y, x)

\* lines 180-186
VecToLl(v) ==
    IF IsNaNVec(v) THEN <<NaN, NaN>>
    ELSE <<Degrees(Once(LAMBDA hyp : Atan2Deg(v[3], hyp),
                        Sqrt(v[1] * v[1] + v[2] * v[2]))),
           Degrees(Atan2Deg(v[2], v[1]))>>

\* line 188
Add(a, b) == <<a[1] + b[1], a[2] + b[2], a[3] + b[3]>>

\* line 190: the dot product of two unit vectors
Dot(a, b) ==
    IF IsNaNVec(a) \/ IsNaNVec(b) THEN NaN
    ELSE RoundDiv(a[1] * b[1] + a[2] * b[2] + a[3] * b[3], One)

\* the vector divided by k, k > 0
Shrink(v, k) == <<RoundDiv(v[1], k), RoundDiv(v[2], k), RoundDiv(v[3], k)>>

\* line 191
Norm(v) == Sqrt(v[1] * v[1] + v[2] * v[2] + v[3] * v[3])

\* line 192: scale(v, 1 / norm(v)); for a vector of length 0 the factor is
\* Infinity and every component is 0 * Infinity, which is NaN
Normalise(v) ==
    Once(LAMBDA a :
             IF IsNaNVec(a) THEN NaNVec
             ELSE Once(LAMBDA u :
                      Once(LAMBDA n :
                               IF n = 0 THEN NaNVec
                               ELSE <<RoundDiv(u[1] * One, n), RoundDiv(u[2] * One, n),
                                      RoundDiv(u[3] * One, n)>>,
                           Norm(u)),
                      Shrink(a, Max(Max(Abs(a[1]), Abs(a[2])), Abs(a[3])) \div 20000 + 1)),
         v)

\* line 203: the sum of the unit vectors of the coordinates
RECURSIVE VectorSum(_, _)
VectorSum(coords, i) ==
    IF i = 0 THEN <<0, 0, 0>>
    ELSE Add(VectorSum(coords, i - 1), LlToVec(coords[i]))

\* line 203
SeedOf(coords) == Normalise(VectorSum(coords, Len(coords)))

\* 1 as the numerator of a weight
WeightOne == 1000000

\* line 212: 1 / Math.max(ang, 1e-15); the smallest angle above 0 stands
\* for the floor
Weight(ang) == WeightOne \div Max(ang, 1)

\* lines 206-215: num and denom after the first i coordinates
RECURSIVE WeightedSum(_, _, _)
WeightedSum(p, coords, i) ==
    IF i = 0 THEN [num |-> <<0, 0, 0>>, denom |-> 0]
    ELSE Once(LAMBDA before :
             Once(LAMBDA q :
                 Once(LAMBDA w :
                          [num |-> <<before.num[1] + RoundDiv(q[1] * w, One),
                                     before.num[2] + RoundDiv(q[2] * w, One),
                                     before.num[3] + RoundDiv(q[3] * w, One)>>,
                           denom |-> before.denom + w],
                      Weight(Acos(Clamp(Dot(p, q), -One, One)))),
                 LlToVec(coords[i])),
             WeightedSum(p, coords, i - 1))

\* line 217: with p NaN every angle, weight and sum is NaN
PNext(p, coords) ==
    IF IsNaNVec(p) THEN NaNVec
    ELSE Once(LAMBDA sum :
                  Normalise(<<RoundDiv(sum.num[1] * 100, Max(sum.denom \div 1000, 1)),
                              RoundDiv(sum.num[2] * 100, Max(sum.denom \div 1000, 1)),
                              RoundDiv(sum.num[3] * 100, Max(sum.denom \div 1000, 1))>>),
              WeightedSum(p, coords, Len(coords)))

\* line 218: tol is 1e-10, smaller than the smallest angle above 0; a
\* comparison with NaN is false
WithinTol(p, pNext) ==
    Once(LAMBDA ang : ~IsNaN(ang) /\ ang < 1, Acos(Clamp(Dot(p, pNext), -One, One)))

\* variant: the loop runs once more
LoopGuardOneMore(k) == k <= DefaultMaxIter

\* line 205: k < maxIter
LoopGuard(k) == k < DefaultMaxIter

\* variant: a single coordinate goes through the loop
SolverCaseNoSingle(coords) == IF Len(coords) = 0 THEN "sentinel" ELSE "median"

\* lines 199-200
SolverCase(coords) ==
    IF Len(coords) = 0 THEN "sentinel"
    ELSE IF Len(coords) = 1 THEN "single"
    ELSE "median"

NoVec == <<>>

\* no call of the solver is under way
NoSolverCall ==
    [pc |-> "idle", coords |-> <<>>, p |-> NoVec, k |-> 0, iterations |-> 0,
     seed |-> NoVec, result |-> NoLatLng]

\* a first run: no run has left anything behind
NoEarlierRun == [run |-> 0]

\* -------------------------------------------------------------------- Init
Init ==
    /\ disk \in [state : {"ok"}, data : PersistedFiles] \cup
                [state : {"absent", "corrupt"}, data : {EmptyPlaces}]
    /\ savedPlaces = EmptyPlaces
    /\ pc = "load"
    /\ parallel \in BOOLEAN
    /\ maxTabs \in IF parallel THEN 0..MaxTabsArg ELSE {DefaultMaxTabs}
    /\ apiKey \in BOOLEAN
    /\ browserOpen = FALSE
    /\ status = [s \in Sources |-> "queued"]
    /\ attempt = [s \in Sources |-> 0]
    /\ outcome = [s \in Sources |-> "none"]
    /\ results = [s \in Sources |-> EmptyBatch]
    /\ mergeIdx = 0
    /\ geo = EmptyPlaces
    /\ errors = {}
    /\ writes = 0
    /\ solverCalls = {}
    /\ solver = NoSolverCall
    /\ tab = [s \in Sources |-> "none"]
    /\ pages = [s \in Sources |-> 0]
    /\ earlier = NoEarlierRun

\* ----------------------------------------------------------- main: startup
\* variant: a file that cannot be read ends the run
AfterLoadFatal(file) == IF file.state = "ok" THEN "reset" ELSE "crashed"

\* readPlacesFromDisk, lines 750-757: a missing file and a failed read both
\* fall through to `return {}`, main goes on to line 776
AfterLoad(file) == "reset"

\* line 773
Load ==
    /\ pc = "load"
    /\ savedPlaces' = ReadPlacesFromDisk(disk)
    /\ pc' = AfterLoad(disk)
    /\ UNCHANGED <<disk, mainVars, browserOpen, fetchVars, mergeIdx, geo, logVars, tailVars>>

\* line 776
Reset ==
    /\ pc = "reset"
    /\ savedPlaces' = ResetCurrent(savedPlaces)
    /\ pc' = "launch"
    /\ UNCHANGED <<disk, mainVars, browserOpen, fetchVars, mergeIdx, geo, logVars, tailVars>>

\* lines 778-782
Launch ==
    /\ pc = "launch"
    /\ browserOpen' = TRUE
    /\ pc' = "scrape"
    /\ UNCHANGED <<disk, savedPlaces, mainVars, fetchVars, mergeIdx, geo, logVars, tailVars>>

\* lines 778-782: puppeteer.launch rejects outside the try block
LaunchFails ==
    /\ pc = "launch"
    /\ pc' = "crashed"
    /\ errors' = errors \cup {"launch"}
    /\ UNCHANGED <<disk, savedPlaces, mainVars, browserOpen, fetchVars, mergeIdx, geo, writes, tailVars>>

\* lines 798-808 and 809-812: the limiter is made in parallel mode only
BeginScraping ==
    /\ pc = "scrape"
    /\ ParallelMode => LimitAccepts(maxTabs)
    /\ pc' = "fetch"
    /\ UNCHANGED <<disk, savedPlaces, mainVars, browserOpen, fetchVars, mergeIdx, geo, logVars, tailVars>>

\* line 805: pLimit throws a TypeError, caught at line 959
LimitThrows ==
    /\ pc = "scrape"
    /\ ParallelMode /\ ~LimitAccepts(maxTabs)
    /\ pc' = "catch"
    /\ errors' = errors \cup {"phase"}
    /\ UNCHANGED <<disk, savedPlaces, mainVars, browserOpen, fetchVars, mergeIdx, geo, writes, tailVars>>

\* ------------------------------------------------- fetch, lines 424-450
\* limit(() => processUrlInTabWithRetry(browser, url)) starts, in queue
\* order; in sequential mode the loop of line 814 awaits one url at a time
StartFetch(s) ==
    /\ pc = "fetch"
    /\ status[s] = "queued"
    /\ IF ParallelMode
       THEN /\ \A t \in Sources : t < s => status[t] # "queued"
            /\ LimitHasSlot(Cardinality(Active), maxTabs)
       ELSE \A t \in Sources : t < s => status[t] = "done"
    /\ status' = [status EXCEPT ![s] = "running"]
    /\ attempt' = [attempt EXCEPT ![s] = 1]
    /\ UNCHANGED <<disk, savedPlaces, pc, mainVars, browserOpen, outcome, results,
                   mergeIdx, geo, logVars, tailVars>>

\* variant: the batches are collected in the order the fetches complete
ResultSlotByCompletion(s) == Cardinality({t \in Sources : status[t] = "done"}) + 1

\* lines 806-807 and 814-816: Promise.all resolves to the batches in the
\* order of urlsToScrape, and the loop pushes them in that order
ResultSlot(s) == s

\* variant: the last failure is thrown on to main instead of returning {}
AfterRejectionRethrows(att) == IF att = DefaultMaxRetries THEN "rejected" ELSE "waiting"

\* variant: the retry loop waits and tries again after every failure
AfterRejectionAlwaysWaits(att) == "waiting"

\* lines 441-446: what the catch block of the retry loop does with a
\* rejected attempt
AfterRejection(att) == IF att = DefaultMaxRetries THEN "done" ELSE "waiting"

\* processUrlInTab rejects: browser.newPage, disableImagesAndFontRequests
\* (lines 481-482) or page.close (line 689) throws
AttemptThrows(s) ==
    /\ pc = "fetch"
    /\ status[s] = "running"
    /\ status' = [status EXCEPT ![s] = AfterRejection(attempt[s])]
    /\ attempt' = [attempt EXCEPT ![s] = IF status'[s] = "waiting" THEN attempt[s] ELSE 0]
    /\ outcome' = [outcome EXCEPT ![s] = "threw"]
    /\ results' = [results EXCEPT ![ResultSlot(s)] = EmptyBatch]
    \* a rejected task would reject the await of line 806 / 815
    /\ pc' = IF status'[s] = "rejected" THEN "catch" ELSE pc
    /\ errors' = IF status'[s] = "rejected" THEN errors \cup {"phase"} ELSE errors
    /\ UNCHANGED <<disk, savedPlaces, mainVars, browserOpen, mergeIdx, geo, writes, tailVars>>

\* line 446: the 3 s delay is over, the loop makes the next attempt
Retry(s) ==
    /\ pc = "fetch"
    /\ status[s] = "waiting"
    /\ status' = [status EXCEPT ![s] = "running"]
    /\ attempt' = [attempt EXCEPT ![s] = attempt[s] + 1]
    /\ UNCHANGED <<disk, savedPlaces, pc, mainVars, browserOpen, outcome, results,
                   mergeIdx, geo, logVars, tailVars>>

\* variant: the tab merges what it scraped into the registry itself
RegistryAfterScrapeInline(places, batch) == MergeBatch(places, batch)

\* lines 484 and 670: the tab writes localSavedPlaces, never savedPlaces
RegistryAfterScrape(places, batch) == places

\* the batches processUrlInTab can build from the pages of the list
ScrapedBatches(listName) == {Scrape(listName, placesFromPage) : placesFromPage \in Pages}

\* processUrlInTab resolves with the scraped batch (lines 646-692)
AttemptScrapes(s, batch) ==
    /\ pc = "fetch"
    /\ status[s] = "running"
    /\ status' = [status EXCEPT ![s] = "done"]
    /\ attempt' = [attempt EXCEPT ![s] = 0]
    /\ outcome' = [outcome EXCEPT ![s] = "scraped"]
    /\ results' = [results EXCEPT ![ResultSlot(s)] = batch]
    /\ savedPlaces' = RegistryAfterScrape(savedPlaces, batch)
    /\ UNCHANGED <<disk, pc, mainVars, browserOpen, mergeIdx, geo, logVars, tailVars>>

\* processUrlInTab resolves with its still empty local batch: an error
\* raised inside its try block (page.goto, ...) is caught at line 686, and
\* a missing list title returns at line 641
SwallowedFailures == {"navError", "noTitle"}

AttemptSwallows(s, kind) ==
    /\ pc = "fetch"
    /\ status[s] = "running"
    /\ status' = [status EXCEPT ![s] = "done"]
    /\ attempt' = [attempt EXCEPT ![s] = 0]
    /\ outcome' = [outcome EXCEPT ![s] = kind]
    /\ results' = [results EXCEPT ![ResultSlot(s)] = EmptyBatch]
    /\ UNCHANGED <<disk, savedPlaces, pc, mainVars, browserOpen, mergeIdx, geo, logVars, tailVars>>

\* lines 806-808 / 814-817: every source has returned its batch; main keeps
\* the batches only, the locals of the fetch tasks are gone
ScrapingCompleted ==
    /\ pc = "fetch"
    /\ AllSettled
    /\ pc' = "merge"
    /\ outcome' = [s \in Sources |-> "none"]
    /\ UNCHANGED <<disk, savedPlaces, mainVars, browserOpen, status, attempt, results,
                   mergeIdx, geo, logVars, tailVars>>

\* ------------------------------------------- merge and sweep, lines 824-867
MergeNext ==
    /\ pc = "merge"
    /\ mergeIdx < NumSources
    /\ savedPlaces' = MergeBatch(savedPlaces, results[mergeIdx + 1])
    /\ mergeIdx' = mergeIdx + 1
    /\ UNCHANGED <<disk, pc, mainVars, browserOpen, fetchVars, geo, logVars, tailVars>>

\* variant: the sweep starts once a first batch is merged
AnyMerged == mergeIdx >= 1

\* line 824: the loop over results has handled every batch
AllMerged == mergeIdx = NumSources

Sweep ==
    /\ pc = "merge"
    /\ AllMerged
    /\ savedPlaces' = SweepPlaces(savedPlaces)
    /\ pc' = "select"
    /\ UNCHANGED <<disk, mainVars, browserOpen, fetchVars, mergeIdx, geo, logVars, tailVars>>

\* ------------------------------------------------ geocoding, lines 871-894
\* lines 876-877: nothing to geocode, or no API key
SkipGeocoding ==
    /\ pc = "select"
    /\ PlacesToGeocode(savedPlaces) = {} \/ ~apiKey
    /\ pc' = "save"
    /\ UNCHANGED <<disk, savedPlaces, mainVars, browserOpen, fetchVars, mergeIdx, geo, logVars, tailVars>>

\* lines 878-891: one limited task per place to geocode
BeginGeocoding ==
    /\ pc = "select"
    /\ PlacesToGeocode(savedPlaces) # {} /\ apiKey
    /\ geo' = [n \in PlacesToGeocode(savedPlaces) |-> "queued"]
    /\ pc' = "geocode"
    /\ UNCHANGED <<disk, savedPlaces, mainVars, browserOpen, fetchVars, mergeIdx, logVars, tailVars>>

GeoRunning == {n \in DOMAIN geo : geo[n] = "running"}
GeoQueued == {n \in DOMAIN geo : geo[n] = "queued"}

\* variant: the lookups go through the limiter of the fetch phase
GeocodeConcurrencyShared == maxTabs

\* line 879: const limit = pLimit(10), a limiter of its own
GeocodeConcurrency == GeocodeLimit

\* p-limit starts the queued tasks in the order they were handed to it, which
\* is the order of placesToGeocode (Object.entries)
GeocodeStart(n) ==
    /\ pc = "geocode"
    /\ n \in DOMAIN geo /\ geo[n] = "queued"
    /\ n = CHOOSE m \in GeoQueued : TRUE
    /\ LimitHasSlot(Cardinality(GeoRunning), GeocodeConcurrency)
    /\ geo' = [geo EXCEPT ![n] = "running"]
    /\ UNCHANGED <<disk, savedPlaces, pc, mainVars, browserOpen, fetchVars, mergeIdx, logVars, tailVars>>

\* lines 883-885: getLatLngAndAddress returned a result
ApplyResult(places, placeName, result) ==
    [places EXCEPT ![placeName] =
        [@ EXCEPT !.address = result.address, !.latLng = result.latLng]]

\* variant: the place that could not be geocoded is kept
DropPlaceKeeps(places, placeName) == places

\* variant: every place that still lacks data is dropped with it
DropPlaceAndPending(places, placeName) ==
    [n \in DOMAIN places \ ({placeName} \cup PlacesToGeocode(places)) |-> places[n]]

\* lines 886-889: getLatLngAndAddress returned null
DropPlace(places, placeName) == RemoveKey(places, placeName)

GeocodeFound(n, result) ==
    /\ pc = "geocode"
    /\ n \in DOMAIN geo /\ geo[n] = "running"
    /\ savedPlaces' = ApplyResult(savedPlaces, n, result)
    /\ geo' = [geo EXCEPT ![n] = "found"]
    /\ UNCHANGED <<disk, pc, mainVars, browserOpen, fetchVars, mergeIdx, logVars, tailVars>>

\* no result (line 717) or a transport error caught at line 719
GeocodeFails(n) ==
    /\ pc = "geocode"
    /\ n \in DOMAIN geo /\ geo[n] = "running"
    /\ savedPlaces' = DropPlace(savedPlaces, n)
    /\ geo' = [geo EXCEPT ![n] = "failed"]
    /\ UNCHANGED <<disk, pc, mainVars, browserOpen, fetchVars, mergeIdx, logVars, tailVars>>

\* variant: main goes on as soon as one lookup has been handled
AnyGeocoded == \E n \in DOMAIN geo : geo[n] \in {"found", "failed"}

\* line 892: Promise.all(geocodePromises)
AllGeocoded == \A n \in DOMAIN geo : geo[n] \in {"found", "failed"}

\* line 892: Promise.all(geocodePromises) resolves
GeocodingComplete ==
    /\ pc = "geocode"
    /\ AllGeocoded
    /\ pc' = "save"
    /\ UNCHANGED <<disk, savedPlaces, mainVars, browserOpen, fetchVars, mergeIdx, geo, logVars, tailVars>>

\* ------------------------------------------------------ save and shutdown
\* savePlacesToDisk, lines 760-767
WrittenFile(places) == [state |-> "ok", data |-> places]

\* line 897
Save ==
    /\ pc = "save"
    /\ disk' = WrittenFile(savedPlaces)
    /\ writes' = writes + 1
    /\ pc' = "midpoint"
    /\ UNCHANGED <<savedPlaces, mainVars, browserOpen, fetchVars, mergeIdx, geo, errors, tailVars>>

\* line 765: outputJson throws, the error is logged and swallowed
SaveFails ==
    /\ pc \in {"save", "catch"}
    /\ errors' = errors \cup {"save"}
    /\ pc' = IF pc = "save" THEN "midpoint" ELSE "finally"
    /\ UNCHANGED <<disk, savedPlaces, mainVars, browserOpen, fetchVars, mergeIdx, geo, writes, tailVars>>

\* ------------------------------------------------ midpoint, lines 910-958
\* lines 914-919
PlacesToInclude(places, excludeClosed) ==
    {n \in DOMAIN places : ~(excludeClosed /\ places[n].permanentlyClosed)}

\* lines 930-932: the coordinates of the included places that have one, one
\* per place
Coordinates(places, excludeClosed) ==
    [n \in {m \in PlacesToInclude(places, excludeClosed) :
                places[m].latLng # NoLatLng} |-> places[n].latLng]

\* Number.prototype.toFixed(6): the sign is kept when the number is below
\* zero, also when it rounds to zero ("-0.000000"); the digits are those of
\* the nearest multiple of 1e-6, here as a count of 1e-6
ToFixed6(x) ==
    [negative |-> x < 0, digits |-> ((IF x < 0 THEN -x ELSE x) + 5) \div 10]

\* Number(str) of line 939, back in 1e-7 degrees ("-0.000000" gives -0, which
\* is equal to 0)
ParseNumber(str) == IF str.negative THEN -(str.digits * 10) ELSE str.digits * 10

\* line 936: `${lat.toFixed(6)},${lng.toFixed(6)}`
CoordinateString(coord) == <<ToFixed6(coord[1]), ToFixed6(coord[2])>>

\* lines 935-937: the Set of the strings
UniqueCoordinateStrings(coordinates) ==
    {CoordinateString(coordinates[n]) : n \in DOMAIN coordinates}

\* lines 938-941: one { lat, lng } per string of the Set
UniqueCoordinates(coordinates) ==
    [str \in UniqueCoordinateStrings(coordinates) |->
        <<ParseNumber(str[1]), ParseNumber(str[2])>>]

\* centerOfMinimumDistance, lines 725-731: which of its three returns is taken
CenterCase(uniqueCoordinates) ==
    IF Cardinality(DOMAIN uniqueCoordinates) = 0 THEN "sentinel"
    ELSE IF Cardinality(DOMAIN uniqueCoordinates) = 1 THEN "single"
    ELSE "median"

\* variant: the solver is called whatever the number of coordinates
HasCoordinatesAlways(uniqueCoordinates) == TRUE

\* line 943
HasCoordinates(uniqueCoordinates) == DOMAIN uniqueCoordinates # {}

\* variant: the midpoint phase ends with a write of the registry
MidpointSaves ==
    /\ pc = "midpoint"
    /\ disk' = WrittenFile(savedPlaces)
    /\ writes' = writes + 1
    /\ pc' = "finally"
    /\ UNCHANGED <<savedPlaces, mainVars, browserOpen, fetchVars, mergeIdx, geo, errors, tailVars>>

\* lines 910-948: centerOfMinimumDistance is called with the deduplicated
\* coordinates when there is one (line 943); the phase reads the registry
\* and changes nothing
Midpoint ==
    /\ pc = "midpoint"
    /\ \E excludeClosed \in BOOLEAN :
          LET uniqueCoordinates ==
                  UniqueCoordinates(Coordinates(savedPlaces, excludeClosed))
          IN IF HasCoordinates(uniqueCoordinates)
             THEN /\ solverCalls' = solverCalls \cup
                        {[excludeClosed |-> excludeClosed,
                          coordinates |-> uniqueCoordinates]}
                  /\ pc' = "reverse"
             ELSE /\ solverCalls' = solverCalls
                  /\ pc' = "finally"
    /\ UNCHANGED <<disk, savedPlaces, mainVars, browserOpen, fetchVars, mergeIdx, geo,
                   logVars, solver, tabVars, earlier>>

\* lines 949-955: getReverseGeocodedAddress returns an address or a
\* fallback text, it never throws
ReverseGeocoded ==
    /\ pc = "reverse"
    /\ pc' = "finally"
    /\ UNCHANGED <<disk, savedPlaces, mainVars, browserOpen, fetchVars, mergeIdx, geo, logVars, tailVars>>

\* variant: the run ends in the catch block, without the finally block
SaveOnErrorEndsRun ==
    /\ pc = "catch"
    /\ disk' = WrittenFile(savedPlaces)
    /\ writes' = writes + 1
    /\ pc' = "done"
    /\ UNCHANGED <<savedPlaces, mainVars, browserOpen, fetchVars, mergeIdx, geo, errors, tailVars>>

\* variant: the catch block sweeps the registry before it saves it
SaveOnErrorSwept ==
    /\ pc = "catch"
    /\ savedPlaces' = SweepPlaces(savedPlaces)
    /\ disk' = WrittenFile(savedPlaces')
    /\ writes' = writes + 1
    /\ pc' = "finally"
    /\ UNCHANGED <<mainVars, browserOpen, fetchVars, mergeIdx, geo, errors, tailVars>>

\* lines 959-962
SaveOnError ==
    /\ pc = "catch"
    /\ disk' = WrittenFile(savedPlaces)
    /\ writes' = writes + 1
    /\ pc' = "finally"
    /\ UNCHANGED <<savedPlaces, mainVars, browserOpen, fetchVars, mergeIdx, geo, errors, tailVars>>

\* lines 963-965
CloseBrowser ==
    /\ pc = "finally"
    /\ browserOpen' = FALSE
    /\ pc' = "done"
    /\ UNCHANGED <<disk, savedPlaces, mainVars, fetchVars, mergeIdx, geo, logVars, tailVars>>

Next ==
    \/ Load \/ Reset \/ Launch \/ LaunchFails \/ BeginScraping \/ LimitThrows
    \/ \E s \in Sources : StartFetch(s)
    \/ \E s \in Sources : AttemptThrows(s)
    \/ \E s \in Sources : Retry(s)
    \/ \E s \in Sources : \E batch \in ScrapedBatches(ListName(s)) : AttemptScrapes(s, batch)
    \/ \E s \in Sources : \E kind \in SwallowedFailures : AttemptSwallows(s, kind)
    \/ ScrapingCompleted \/ MergeNext \/ Sweep
    \/ SkipGeocoding \/ BeginGeocoding
    \/ \E n \in Names : GeocodeStart(n)
    \/ \E n \in Names : \E result \in GeocodeResults(n) : GeocodeFound(n, result)
    \/ \E n \in Names : GeocodeFails(n)
    \/ GeocodingComplete
    \/ Save \/ SaveFails \/ Midpoint \/ ReverseGeocoded \/ SaveOnError \/ CloseBrowser

Spec == Init /\ [][Next]_vars

\* ------------------------------------------------- runs that go on
\* a run that finds no places file
LiveInit == Init /\ disk.state = "absent"

\* the batches of a list whose page shows at most one place
ShortBatches(listName) == {Scrape(listName, placesFromPage) : placesFromPage \in PagesUpTo(1)}

\* the steps of Next, for lists of at most one place
LiveNext ==
    \/ Load \/ Reset \/ Launch \/ LaunchFails \/ BeginScraping \/ LimitThrows
    \/ \E s \in Sources : StartFetch(s)
    \/ \E s \in Sources : AttemptThrows(s)
    \/ \E s \in Sources : Retry(s)
    \/ \E s \in Sources : \E batch \in ShortBatches(ListName(s)) : AttemptScrapes(s, batch)
    \/ \E s \in Sources : \E kind \in SwallowedFailures : AttemptSwallows(s, kind)
    \/ ScrapingCompleted \/ MergeNext \/ Sweep
    \/ SkipGeocoding \/ BeginGeocoding
    \/ \E n \in Names : GeocodeStart(n)
    \/ \E n \in Names : \E result \in GeocodeResults(n) : GeocodeFound(n, result)
    \/ \E n \in Names : GeocodeFails(n)
    \/ GeocodingComplete
    \/ Save \/ SaveFails \/ Midpoint \/ ReverseGeocoded \/ SaveOnError \/ CloseBrowser

\* every call main or a task awaits returns or fails, and the event loop
\* runs what is ready: a step that stays possible is taken
LiveSpec == LiveInit /\ [][LiveNext]_vars /\ WF_vars(LiveNext)

\* ------------------------------------------------- a run after a run
\* what a run leaves behind when its process has ended: the file, and for
\* the comparison with the next run the batches its sources returned, the
\* outcome of its lookups, the registry it ended with, whether it wrote the
\* file, whether it had an API key and where it ended
RunRecord ==
    [run |-> 1, file |-> disk, results |-> results, geo |-> geo,
     places |-> savedPlaces, writes |-> writes, apiKey |-> apiKey, ended |-> pc]

\* lines 770-773: the same command line is started again, a new process
\* whose only inheritance is the places file; API_KEY is read from the
\* environment of the new process
NextRun ==
    /\ pc \in {"done", "crashed"}
    /\ earlier = NoEarlierRun
    /\ earlier' = RunRecord
    /\ savedPlaces' = EmptyPlaces
    /\ pc' = "load"
    /\ browserOpen' = FALSE
    /\ status' = [s \in Sources |-> "queued"]
    /\ attempt' = [s \in Sources |-> 0]
    /\ outcome' = [s \in Sources |-> "none"]
    /\ results' = [s \in Sources |-> EmptyBatch]
    /\ mergeIdx' = 0
    /\ geo' = EmptyPlaces
    /\ errors' = {}
    /\ writes' = 0
    /\ solverCalls' = {}
    /\ apiKey' \in BOOLEAN
    /\ UNCHANGED <<disk, parallel, maxTabs, solver, tabVars>>

\* the batches of a list whose page shows at most one place, a named place
\* that is not closed
OpenBatches(listName) ==
    {Scrape(listName, placesFromPage) :
        placesFromPage \in UNION {[1..i -> [name : Names, permanentlyClosed : {FALSE}]] :
                                     i \in 0..1}}

\* the file of a run that had no API key and found one place in its first list
FileWithoutCoordinates ==
    WrittenFile([n \in {"A"} |-> SavedPlace(<<ListName(1)>>, TRUE, TRUE, Undefined, NoLatLng)])

\* a first run that finds no places file or the file of a run without API
\* key, followed by a second run, both started without --parallel
TwoRunInit ==
    /\ Init
    /\ ~parallel
    /\ disk \in {[state |-> "absent", data |-> EmptyPlaces], FileWithoutCoordinates}

\* the steps of Next that a run without --parallel can take (the
\* limiter of line 805 is not made, so nothing is thrown inside the try
\* block of main), and the start of the second run
TwoRunNext ==
    \/ Load \/ Reset \/ Launch \/ LaunchFails \/ BeginScraping
    \/ \E s \in Sources : StartFetch(s)
    \/ \E s \in Sources : AttemptThrows(s)
    \/ \E s \in Sources : Retry(s)
    \/ \E s \in Sources : \E batch \in OpenBatches(ListName(s)) : AttemptScrapes(s, batch)
    \/ \E s \in Sources : \E kind \in SwallowedFailures : AttemptSwallows(s, kind)
    \/ ScrapingCompleted \/ MergeNext \/ Sweep
    \/ SkipGeocoding \/ BeginGeocoding
    \/ \E n \in Names : GeocodeStart(n)
    \/ \E n \in Names : \E result \in GeocodeResults(n) : GeocodeFound(n, result)
    \/ \E n \in Names : GeocodeFails(n)
    \/ GeocodingComplete
    \/ Save \/ SaveFails \/ Midpoint \/ ReverseGeocoded \/ CloseBrowser
    \/ NextRun

TwoRunSpec == TwoRunInit /\ [][TwoRunNext]_vars

\* --------------------------------- the page of an attempt, lines 476-693
\* the state of main at line 798 of a run that found no places file
PageInit ==
    /\ disk = [state |-> "absent", data |-> EmptyPlaces]
    /\ savedPlaces = EmptyPlaces
    /\ pc = "fetch"
    /\ parallel \in BOOLEAN
    /\ maxTabs \in IF parallel THEN 1..MaxTabsArg ELSE {DefaultMaxTabs}
    /\ apiKey = FALSE
    /\ browserOpen = TRUE
    /\ status = [s \in Sources |-> "queued"]
    /\ attempt = [s \in Sources |-> 0]
    /\ outcome = [s \in Sources |-> "none"]
    /\ results = [s \in Sources |-> EmptyBatch]
    /\ mergeIdx = 0
    /\ geo = EmptyPlaces
    /\ errors = {}
    /\ writes = 0
    /\ solverCalls = {}
    /\ solver = NoSolverCall
    /\ tab = [s \in Sources |-> "none"]
    /\ pages = [s \in Sources |-> 0]
    /\ earlier = NoEarlierRun

\* lines 436-447: processUrlInTab has rejected, the catch block of the retry
\* loop returns the empty batch or starts the delay
Rejected(s) ==
    /\ status' = [status EXCEPT ![s] = AfterRejection(attempt[s])]
    /\ attempt' = [attempt EXCEPT ![s] = IF status'[s] = "waiting" THEN attempt[s] ELSE 0]
    /\ outcome' = [outcome EXCEPT ![s] = "threw"]
    /\ results' = [results EXCEPT ![ResultSlot(s)] = EmptyBatch]
    /\ tab' = [tab EXCEPT ![s] = "none"]

\* line 481: browser.newPage() resolves
NewPage(s) ==
    /\ pc = "fetch"
    /\ status[s] = "running" /\ tab[s] = "none"
    /\ tab' = [tab EXCEPT ![s] = "opened"]
    /\ pages' = [pages EXCEPT ![s] = pages[s] + 1]
    /\ UNCHANGED <<disk, savedPlaces, pc, mainVars, browserOpen, fetchVars, mergeIdx, geo,
                   logVars, solverCalls, solver, earlier>>

\* line 481: browser.newPage() rejects, no page exists
NewPageFails(s) ==
    /\ pc = "fetch"
    /\ status[s] = "running" /\ tab[s] = "none"
    /\ Rejected(s)
    /\ UNCHANGED <<disk, savedPlaces, pc, mainVars, browserOpen, mergeIdx, geo, logVars,
                   solverCalls, solver, pages, earlier>>

\* line 482 (lines 322-331): page.setRequestInterception(true) resolves and
\* the request handler is set; the try block of line 486 is entered
InterceptionSet(s) ==
    /\ pc = "fetch"
    /\ status[s] = "running" /\ tab[s] = "opened"
    /\ tab' = [tab EXCEPT ![s] = "try"]
    /\ UNCHANGED <<disk, savedPlaces, pc, mainVars, browserOpen, fetchVars, mergeIdx, geo,
                   logVars, solverCalls, solver, pages, earlier>>

\* line 482 stands before the try block of line 486: when it rejects, the
\* finally block of lines 688-690 is not run
PagesAfterInterceptionFails(s) == pages

\* line 482: page.setRequestInterception(true) rejects
InterceptionFails(s) ==
    /\ pc = "fetch"
    /\ status[s] = "running" /\ tab[s] = "opened"
    /\ Rejected(s)
    /\ pages' = PagesAfterInterceptionFails(s)
    /\ UNCHANGED <<disk, savedPlaces, pc, mainVars, browserOpen, mergeIdx, geo, logVars,
                   solverCalls, solver, earlier>>

\* lines 486-687: the try block is left, at its end, by the return of line
\* 641 or through the catch block of line 686
TryBlockEnds(s) ==
    /\ pc = "fetch"
    /\ status[s] = "running" /\ tab[s] = "try"
    /\ tab' = [tab EXCEPT ![s] = "finally"]
    /\ UNCHANGED <<disk, savedPlaces, pc, mainVars, browserOpen, fetchVars, mergeIdx, geo,
                   logVars, solverCalls, solver, pages, earlier>>

\* lines 689-692: page.close() resolves and processUrlInTab returns its
\* local batch, scraped or left empty by a swallowed failure
PageClosed(s, kind, batch) ==
    /\ pc = "fetch"
    /\ status[s] = "running" /\ tab[s] = "finally"
    /\ tab' = [tab EXCEPT ![s] = "none"]
    /\ pages' = [pages EXCEPT ![s] = pages[s] - 1]
    /\ status' = [status EXCEPT ![s] = "done"]
    /\ attempt' = [attempt EXCEPT ![s] = 0]
    /\ outcome' = [outcome EXCEPT ![s] = kind]
    /\ results' = [results EXCEPT ![ResultSlot(s)] = batch]
    /\ UNCHANGED <<disk, savedPlaces, pc, mainVars, browserOpen, mergeIdx, geo, logVars,
                   solverCalls, solver, earlier>>

\* line 689: page.close() rejects; the page is gone or is still there
PageCloseFails(s) ==
    /\ pc = "fetch"
    /\ status[s] = "running" /\ tab[s] = "finally"
    /\ Rejected(s)
    /\ pages' \in {pages, [pages EXCEPT ![s] = pages[s] - 1]}
    /\ UNCHANGED <<disk, savedPlaces, pc, mainVars, browserOpen, mergeIdx, geo, logVars,
                   solverCalls, solver, earlier>>

\* the fetch phase with the steps of processUrlInTab
PageNext ==
    \/ \E s \in Sources : StartFetch(s)
    \/ \E s \in Sources : NewPage(s)
    \/ \E s \in Sources : NewPageFails(s)
    \/ \E s \in Sources : InterceptionSet(s)
    \/ \E s \in Sources : InterceptionFails(s)
    \/ \E s \in Sources : TryBlockEnds(s)
    \/ \E s \in Sources : \E batch \in ShortBatches(ListName(s)) : PageClosed(s, "scraped", batch)
    \/ \E s \in Sources : \E kind \in SwallowedFailures : PageClosed(s, kind, EmptyBatch)
    \/ \E s \in Sources : PageCloseFails(s)
    \/ \E s \in Sources : Retry(s)
    \/ ScrapingCompleted

PageSpec == PageInit /\ [][PageNext]_vars

\* ------------------------------------------- the limiter of the lookups
\* more places to geocode than the limiter lets through at a time
ManyNames == {"P" \o ToString(i) : i \in 1..(GeocodeLimit + ExtraLookups)}

\* lines 666-675: a place as it is scraped, without address and coordinate
ScrapedPlace(listName) == SavedPlace(<<listName>>, TRUE, FALSE, Undefined, NoLatLng)

\* the state of main after the sweep (line 867) of a run with --parallel
\* --maxTabs 1 that had no places file and has scraped the places of
\* ManyNames from its first list
GeoInit ==
    /\ disk = [state |-> "absent", data |-> EmptyPlaces]
    /\ savedPlaces = [n \in ManyNames |-> ScrapedPlace(ListName(1))]
    /\ pc = "select"
    /\ parallel = TRUE
    /\ maxTabs = 1
    /\ apiKey = TRUE
    /\ browserOpen = TRUE
    /\ status = [s \in Sources |-> "done"]
    /\ attempt = [s \in Sources |-> 0]
    /\ outcome = [s \in Sources |-> "none"]
    /\ results = [s \in Sources |->
                    IF s = 1 THEN [savedPlaces |-> savedPlaces] ELSE EmptyBatch]
    /\ mergeIdx = NumSources
    /\ geo = EmptyPlaces
    /\ errors = {}
    /\ writes = 0
    /\ solverCalls = {}
    /\ solver = NoSolverCall
    /\ tab = [s \in Sources |-> "none"]
    /\ pages = [s \in Sources |-> 0]
    /\ earlier = NoEarlierRun

\* lines 878-894
GeoNext ==
    \/ BeginGeocoding
    \/ \E n \in ManyNames : GeocodeStart(n)
    \/ \E n \in ManyNames :
          GeocodeFound(n, [address |-> "addr", latLng |-> <<4, Degrees(13)>>])
    \/ \E n \in ManyNames : GeocodeFails(n)
    \/ GeocodingComplete

GeoSpec == GeoInit /\ [][GeoNext]_vars

\* ------------------------------------------------------------- the solver
\* the coordinates the solver is called with, on the grid of whole degrees:
\* three points around the south pole axis and a pair of antipodes
SolverPoints ==
    {<<Degrees(-30), Degrees(-60)>>, <<Degrees(-30), Degrees(60)>>,
     <<Degrees(60), Degrees(180)>>,
     <<Degrees(0), Degrees(30)>>, <<Degrees(0), Degrees(-150)>>}

SolverInputs == UNION {[1..n -> SolverPoints] : n \in 0..MaxPoints}

\* a call geometricMedianOnSphere(coords) with the default options, made
\* while main does nothing
SolverInit ==
    /\ disk = [state |-> "absent", data |-> EmptyPlaces]
    /\ savedPlaces = EmptyPlaces
    /\ pc = "load"
    /\ parallel = FALSE
    /\ maxTabs = DefaultMaxTabs
    /\ apiKey = FALSE
    /\ browserOpen = FALSE
    /\ status = [s \in Sources |-> "queued"]
    /\ attempt = [s \in Sources |-> 0]
    /\ outcome = [s \in Sources |-> "none"]
    /\ results = [s \in Sources |-> EmptyBatch]
    /\ mergeIdx = 0
    /\ geo = EmptyPlaces
    /\ errors = {}
    /\ writes = 0
    /\ solverCalls = {}
    /\ solver \in {[NoSolverCall EXCEPT !.pc = "call", !.coords = coords] :
                      coords \in SolverInputs}
    /\ tab = [s \in Sources |-> "none"]
    /\ pages = [s \in Sources |-> 0]
    /\ earlier = NoEarlierRun


\* line 199
ReturnSentinel ==
    /\ solver.pc = "call"
    /\ SolverCase(solver.coords) = "sentinel"
    /\ solver' = [solver EXCEPT !.pc = "return", !.result = <<0, 0>>]
    /\ UNCHANGED pipelineVars

\* line 200
ReturnSinglePoint ==
    /\ solver.pc = "call"
    /\ SolverCase(solver.coords) = "single"
    /\ solver' = [solver EXCEPT !.pc = "return", !.result = solver.coords[1]]
    /\ UNCHANGED pipelineVars

\* line 203 and the start of the loop of line 205
Seed ==
    /\ solver.pc = "call"
    /\ SolverCase(solver.coords) = "median"
    /\ \E p \in {SeedOf(solver.coords)} :
          solver' = [solver EXCEPT !.pc = "loop", !.k = 0, !.p = p, !.seed = p]
    /\ UNCHANGED pipelineVars

\* lines 205-219: one run of the loop body, ended by the break of line 218
\* or by p = pNext and k++
Iterate ==
    /\ solver.pc = "loop"
    /\ LoopGuard(solver.k)
    /\ \E pNext \in {PNext(solver.p, solver.coords)} :
          IF WithinTol(solver.p, pNext)
          THEN solver' = [solver EXCEPT !.pc = "exit",
                                        !.iterations = solver.iterations + 1]
          ELSE solver' = [solver EXCEPT !.p = pNext, !.k = solver.k + 1,
                                        !.iterations = solver.iterations + 1]
    /\ UNCHANGED pipelineVars

\* line 205: k < maxIter is false
LoopExhausted ==
    /\ solver.pc = "loop"
    /\ ~LoopGuard(solver.k)
    /\ solver' = [solver EXCEPT !.pc = "exit"]
    /\ UNCHANGED pipelineVars

\* line 222
ReturnEstimate ==
    /\ solver.pc = "exit"
    /\ solver' = [solver EXCEPT !.pc = "return", !.result = VecToLl(solver.p)]
    /\ UNCHANGED pipelineVars

SolverNext ==
    \/ ReturnSentinel
    \/ ReturnSinglePoint
    \/ Seed
    \/ Iterate
    \/ LoopExhausted
    \/ ReturnEstimate

SolverSpec == SolverInit /\ [][SolverNext]_vars

\* the call runs on: nothing but its own steps can hold it up
SolverLive == SolverSpec /\ WF_vars(SolverNext)

TypeOK ==
    /\ pc \in {"load", "reset", "launch", "crashed", "scrape", "fetch", "merge",
               "select", "geocode", "save", "midpoint", "reverse", "catch",
               "finally", "done"}
    /\ DOMAIN savedPlaces \subseteq Names
    /\ \A s \in Sources : status[s] \in {"queued", "running", "waiting", "done"}
    /\ \A s \in Sources : results[s].savedPlaces \in UNION {[D -> [categories : {<<ListName(s)>>}, current : {TRUE}, permanentlyClosed : BOOLEAN, address : {Undefined}, latLng : {NoLatLng}]] : D \in SUBSET Names}
    /\ \A s \in Sources : attempt[s] \in 0..DefaultMaxRetries
    /\ mergeIdx \in 0..NumSources
    /\ errors \subseteq {"launch", "phase", "save"}
    /\ writes \in 0..1

\* ================================================================ properties
Enriched(place) == place.address # Undefined /\ place.latLng # NoLatLng

ObservedNames == UNION {DOMAIN results[s].savedPlaces : s \in Sources}

\* a source is in flight from the start of its first attempt to its return
InFlight(s) == status[s] \in {"running", "waiting"}

\* the last attempt of the source has ended, and it ended in a failure
FailedSource(s) ==
    /\ outcome[s] \in {"threw"} \cup SwallowedFailures
    /\ status[s] \notin {"running", "waiting"}

\* C1: after reset, merge of every batch and sweep, the keys of the registry
\* are exactly the names observed in the batches of the run, whatever the
\* registry held before.
C1_KeysAreObservedNames ==
    pc = "select" => DOMAIN savedPlaces = ObservedNames

\* a loaded place was swept and a new one was created
C1_Witness ==
    /\ pc = "select"
    /\ disk.state = "ok"
    /\ \E n \in DOMAIN disk.data : n \notin DOMAIN savedPlaces
    /\ \E n \in DOMAIN savedPlaces : n \notin DOMAIN disk.data

\* C2: merging the batch of list L creates, for an observation (name, closed)
\* of an unknown name, the place {categories: [L], current: true,
\* permanentlyClosed: closed}; for a known name it sets current, overwrites
\* permanentlyClosed, and appends L only when L is not among the categories.
C2_MergeHandlesEachObservation ==
    [][(pc = "merge" /\ mergeIdx < NumSources) =>
        LET L == ListName(mergeIdx + 1)
            batch == results[mergeIdx + 1].savedPlaces
        IN \A n \in DOMAIN batch :
            /\ n \in DOMAIN savedPlaces'
            /\ savedPlaces'[n].current = TRUE
            /\ savedPlaces'[n].permanentlyClosed = batch[n].permanentlyClosed
            /\ IF n \notin DOMAIN savedPlaces
               THEN savedPlaces'[n].categories = <<L>>
               ELSE savedPlaces'[n].categories =
                        IF Includes(savedPlaces[n].categories, L)
                        THEN savedPlaces[n].categories
                        ELSE Append(savedPlaces[n].categories, L)]_vars

\* a batch has created one place, appended its label to a loaded place, and
\* a loaded place that already had the label of a list was listed by it
C2_Witness ==
    /\ pc = "merge" /\ mergeIdx = NumSources
    /\ disk.state = "ok"
    /\ \E n \in DOMAIN savedPlaces : n \notin DOMAIN disk.data
    /\ \E n \in DOMAIN savedPlaces \cap DOMAIN disk.data :
          /\ savedPlaces[n].current
          /\ \/ Len(savedPlaces[n].categories) > Len(disk.data[n].categories)
             \/ \E s \in Sources :
                   /\ n \in DOMAIN results[s].savedPlaces
                   /\ Includes(disk.data[n].categories, ListName(s))

\* C3: a source whose attempt failed is attempted again until one attempt
\* succeeds or maxRetries attempts have been made: a source returns its
\* batch to main only from an attempt that scraped its list or from its
\* last attempt.
C3_FailedAttemptIsRetried ==
    [][\A s \in Sources :
        (status[s] = "running" /\ status'[s] = "done") =>
            (outcome'[s] = "scraped" \/ attempt[s] = DefaultMaxRetries)]_vars

\* C4 as stated: the batch of a source whose every attempt failed is empty
\* and carries the list label of the source.
C4_EmptyBatchCarriesLabel ==
    \A s \in Sources :
        FailedSource(s) =>
            /\ results[s].savedPlaces = EmptyPlaces
            /\ ListName(s) \in BatchLabels(results[s])

\* C4 amended: the batch of a source whose every attempt failed is empty and
\* carries no list label, the source counts as returned, and the run stays
\* in the fetch phase with the batches of the other sources untouched.
C4_FailedSourceGivesEmptyBatch ==
    /\ [](\A s \in Sources :
            FailedSource(s) =>
                /\ status[s] = "done"
                /\ results[s] = EmptyBatch
                /\ BatchLabels(results[s]) = {}
                /\ pc = "fetch")
    /\ [][\A s \in Sources :
            (~FailedSource(s) /\ FailedSource(s)') =>
                \A t \in Sources \ {s} :
                    results'[t] = results[t] /\ status'[t] = status[t]]_vars

\* a source has used every attempt and another one has scraped places
C4_Witness ==
    \E s, t \in Sources :
        /\ FailedSource(s) /\ outcome[s] = "threw"
        /\ status[t] = "done" /\ results[t].savedPlaces # EmptyPlaces

\* C5: no failure of a source stops the run: during the fetch phase main goes
\* nowhere but on to the merge, it does so only when every source has
\* returned, and the failure of a source leaves the other sources as they are.
C5_FetchPhaseNeverRaises ==
    [][pc = "fetch" =>
        /\ pc' \in {"fetch", "merge"}
        /\ pc' = "merge" => \A s \in Sources : status'[s] = "done"
        /\ \A s \in Sources :
              (~FailedSource(s) /\ FailedSource(s)') =>
                  \A t \in Sources \ {s} : status'[t] = status[t]]_vars

\* every source has returned: one after failing on every attempt, another
\* with the places it scraped
C5_Witness ==
    /\ pc = "fetch" /\ AllSettled
    /\ \E s, t \in Sources :
          /\ outcome[s] = "threw" /\ results[s] = EmptyBatch
          /\ outcome[t] = "scraped" /\ results[t].savedPlaces # EmptyPlaces

\* C6: in parallel mode the number of sources with an attempt in progress
\* never exceeds maxTabs.
C6_AtMostMaxTabsInFlight ==
    ParallelMode => Cardinality({s \in Sources : status[s] = "running"}) <= maxTabs

\* the cap binds: maxTabs fetches run and a source is kept waiting in the queue
C6_Witness ==
    /\ ParallelMode /\ pc = "fetch"
    /\ Cardinality({s \in Sources : status[s] = "running"}) = maxTabs
    /\ \E s \in Sources : status[s] = "queued"

\* C7 as stated: when the enrichment phase has finished every place of the
\* registry has an address and a coordinate.
C7_AllPlacesEnriched ==
    pc \in {"save", "midpoint"} => \A n \in DOMAIN savedPlaces : Enriched(savedPlaces[n])

\* C7 amended: when the enrichment phase has finished in a run that has an
\* API key, every place of the registry has an address and a coordinate, and
\* so has every place of the file written by that run.
C7_AllPlacesEnrichedWithApiKey ==
    /\ (apiKey /\ pc \in {"save", "midpoint"}) =>
            \A n \in DOMAIN savedPlaces : Enriched(savedPlaces[n])
    /\ (apiKey /\ pc = "midpoint" /\ disk = WrittenFile(savedPlaces)) =>
            \A n \in DOMAIN disk.data : Enriched(disk.data[n])

\* a lookup has failed, another has succeeded, and the registry is saved
C7_Witness ==
    /\ apiKey /\ pc = "midpoint"
    /\ disk = WrittenFile(savedPlaces)
    /\ \E n \in DOMAIN geo : geo[n] = "failed"
    /\ \E n \in DOMAIN geo : geo[n] = "found" /\ n \in DOMAIN savedPlaces

\* C8: a lookup that fails removes its place and nothing else: the other
\* places and lookups are as they were, the phase goes on, and it ends only
\* when every lookup has been made, with the result of each one applied.
C8_GeocodeFailureDropsOnlyThatPlace ==
    /\ [][\A n \in DOMAIN geo :
            (geo[n] = "running" /\ geo'[n] = "failed") =>
                /\ n \notin DOMAIN savedPlaces'
                /\ pc' = "geocode"
                /\ \A m \in DOMAIN geo \ {n} : geo'[m] = geo[m]
                /\ \A m \in DOMAIN savedPlaces \ {n} :
                      m \in DOMAIN savedPlaces' /\ savedPlaces'[m] = savedPlaces[m]]_vars
    /\ [](pc = "save" =>
            \A n \in DOMAIN geo :
                \/ geo[n] = "failed" /\ n \notin DOMAIN savedPlaces
                \/ geo[n] = "found" /\ n \in DOMAIN savedPlaces
                                    /\ Enriched(savedPlaces[n]))

\* the lookup of one place failed before the lookup of another succeeded
C8_Witness ==
    /\ pc = "save"
    /\ \E n, m \in DOMAIN geo :
          /\ geo[n] = "failed" /\ n \notin DOMAIN savedPlaces
          /\ geo[m] = "found" /\ Enriched(savedPlaces[m])

\* C9 as stated: while the geocoding tasks are in flight no registry key is
\* inserted or deleted.
C9_NoKeyChangesWhileGeocoding ==
    [][pc = "geocode" => DOMAIN savedPlaces' = DOMAIN savedPlaces]_vars

\* C9 amended: while the geocoding tasks are in flight no registry key is
\* inserted, and a key is deleted only by the task that owns it, when its
\* own lookup has failed; no task touches the key of another place.
C9_TaskDeletesOnlyItsOwnKey ==
    [][pc = "geocode" =>
        /\ DOMAIN savedPlaces' \subseteq DOMAIN savedPlaces
        /\ \A n \in DOMAIN savedPlaces \ DOMAIN savedPlaces' :
              n \in DOMAIN geo /\ geo[n] = "running" /\ geo'[n] = "failed"]_vars

\* a task has deleted its key while another lookup is in flight
C9_Witness ==
    /\ pc = "geocode"
    /\ \E n, m \in DOMAIN geo :
          /\ geo[n] = "failed" /\ n \notin DOMAIN savedPlaces
          /\ geo[m] = "running" /\ m \in DOMAIN savedPlaces

\* C10: while a source is in flight the registry does not change and a step
\* changes the batch of the returning source only; the merge starts only
\* when every source has returned.
C10_RegistryUntouchedDuringFetch ==
    /\ [][(\E s \in Sources : InFlight(s)) =>
            /\ savedPlaces' = savedPlaces
            /\ \A t \in Sources :
                  results'[t] # results[t] => (status[t] = "running" /\ ~InFlight(t)')]_vars
    /\ [](pc \in {"merge", "select", "geocode"} => \A s \in Sources : ~InFlight(s))

\* a source has returned places that the registry lacks while another source
\* is still in flight
C10_Witness ==
    /\ pc = "fetch"
    /\ \E s, t \in Sources :
          /\ status[s] = "done"
          /\ \E n \in DOMAIN results[s].savedPlaces : n \notin DOMAIN savedPlaces
          /\ InFlight(t)

\* the labels of a categories array, as a set
LabelSet(categories) == {categories[i] : i \in 1..Len(categories)}

\* C11: the batch of every source sits in the slot of its url whatever the
\* mode, the cap and the order in which the fetches complete, and the registry
\* after merge and sweep is one and the same function of the loaded file and
\* of the batch of each source, merged in url order.
C11_RegistryIndependentOfFetchOrder ==
    /\ \A s \in Sources : BatchLabels(results[s]) \subseteq {ListName(s)}
    /\ pc = "select" =>
          savedPlaces = SweepPlaces(MergeInOrder(ResetCurrent(ReadPlacesFromDisk(disk)),
                                                 results, UrlOrder, NumSources))

\* a later url has returned places while an earlier url is still being fetched
C11_Witness ==
    /\ ParallelMode /\ pc = "fetch"
    /\ \E s, t \in Sources :
          /\ s < t /\ InFlight(s) /\ status[t] = "done"
          /\ BatchLabels(results[t]) = {ListName(t)}

\* the batches containing a name disagree on its permanentlyClosed
BatchesDisagree(n) ==
    \E s, t \in Sources :
        /\ n \in DOMAIN results[s].savedPlaces \cap DOMAIN results[t].savedPlaces
        /\ results[s].savedPlaces[n].permanentlyClosed #
              results[t].savedPlaces[n].permanentlyClosed

\* C12: merging the batches of a run in any two orders gives registries with
\* the same keys and, per key, the same set of category labels (and the same
\* current, address and coordinate); permanentlyClosed differs only for names
\* on which the batches disagree.
C12_MergeOrderCommutes ==
    pc = "merge" /\ mergeIdx = 0 =>
        LET merged == {MergeInOrder(savedPlaces, results, f, NumSources) :
                          f \in MergeOrders}
        IN \A a, b \in merged :
               /\ DOMAIN a = DOMAIN b
               /\ \A n \in DOMAIN a :
                     /\ LabelSet(a[n].categories) = LabelSet(b[n].categories)
                     /\ a[n].current = b[n].current
                     /\ a[n].address = b[n].address
                     /\ a[n].latLng = b[n].latLng
                     /\ a[n].permanentlyClosed # b[n].permanentlyClosed
                            => BatchesDisagree(n)

\* two batches list one name with different flags, and two orders of merging
\* them differ on that flag
C12_Witness ==
    /\ pc = "merge" /\ mergeIdx = 0
    /\ \E n \in Names : \E f, g \in MergeOrders :
          /\ BatchesDisagree(n)
          /\ MergeInOrder(savedPlaces, results, f, NumSources)[n].permanentlyClosed #
                MergeInOrder(savedPlaces, results, g, NumSources)[n].permanentlyClosed

\* C13: merging a batch a second time changes nothing: the registry equals the
\* registry after the first merge (no label twice, same current and
\* permanentlyClosed).
C13_MergeIsIdempotent ==
    pc = "merge" =>
        \A s \in Sources :
            LET once == MergeBatch(savedPlaces, results[s])
            IN MergeBatch(once, results[s]) = once

\* the batch to merge holds a name the registry has and a name it has not
C13_Witness ==
    /\ pc = "merge"
    /\ \E s \in Sources :
          /\ DOMAIN results[s].savedPlaces \cap DOMAIN savedPlaces # {}
          /\ DOMAIN results[s].savedPlaces \ DOMAIN savedPlaces # {}

\* the positions of `order`, among the k first, whose batch contains the name
MergedWith(n, order, k) == {i \in 1..k : n \in DOMAIN results[order[i]].savedPlaces}

Last(S) == CHOOSE i \in S : \A j \in S : j <= i

\* C14: whatever the order in which the batches are merged, the stored
\* permanentlyClosed of a name is the value of the last merged batch that
\* contains the name, for a loaded place as for a place created in the run.
C14_LastMergedBatchDecidesClosed ==
    /\ pc = "merge" /\ mergeIdx = 0 =>
          \A f \in MergeOrders :
              LET a == MergeInOrder(savedPlaces, results, f, NumSources)
              IN \A n \in DOMAIN a :
                    MergedWith(n, f, NumSources) # {} =>
                        a[n].permanentlyClosed =
                          results[f[Last(MergedWith(n, f, NumSources))]]
                              .savedPlaces[n].permanentlyClosed
    /\ pc = "merge" =>
          \A n \in DOMAIN savedPlaces :
              MergedWith(n, UrlOrder, mergeIdx) # {} =>
                  savedPlaces[n].permanentlyClosed =
                    results[Last(MergedWith(n, UrlOrder, mergeIdx))]
                        .savedPlaces[n].permanentlyClosed

\* every batch is merged; a loaded place took the flag of the last of two
\* batches that disagree on it
C14_Witness ==
    /\ pc = "merge" /\ mergeIdx = NumSources
    /\ \E n \in DOMAIN ReadPlacesFromDisk(disk) :
          /\ BatchesDisagree(n)
          /\ savedPlaces[n].permanentlyClosed # disk.data[n].permanentlyClosed

\* main has passed the sweep without an error raised in a phase
PastSweep ==
    \/ pc \in {"select", "geocode", "save", "midpoint", "reverse"}
    \/ pc \in {"finally", "done"} /\ "phase" \notin errors

\* C15: once the sweep has run, and on to the end of a full run, every place
\* of the registry (and of the file the run writes) has current = TRUE, and a
\* loaded place that no batch mentions is gone.
C15_EveryPlaceCurrentAfterRun ==
    /\ PastSweep => \A n \in DOMAIN savedPlaces : savedPlaces[n].current
    /\ PastSweep /\ writes = 1 => \A n \in DOMAIN disk.data : disk.data[n].current
    /\ pc = "select" =>
          \A n \in DOMAIN ReadPlacesFromDisk(disk) \ ObservedNames :
              n \notin DOMAIN savedPlaces

\* of two loaded places, one was not listed and is gone, the other is kept
C15_Witness ==
    /\ pc = "select"
    /\ DOMAIN ReadPlacesFromDisk(disk) \ DOMAIN savedPlaces # {}
    /\ \E n \in DOMAIN ReadPlacesFromDisk(disk) \cap DOMAIN savedPlaces :
          savedPlaces[n].current

\* C16: the merge of a batch keeps every registered name with its address and
\* coordinate as they were, and a place the file holds enriched is never among
\* the places that are geocoded.
C16_MergeKeepsEnrichment ==
    /\ [](pc = "geocode" =>
            \A n \in DOMAIN geo :
                ~(n \in DOMAIN ReadPlacesFromDisk(disk) /\ Enriched(disk.data[n])))
    /\ [][pc = "merge" /\ pc' = "merge" =>
            \A n \in DOMAIN savedPlaces :
                /\ n \in DOMAIN savedPlaces'
                /\ savedPlaces'[n].address = savedPlaces[n].address
                /\ savedPlaces'[n].latLng = savedPlaces[n].latLng]_vars

\* an enriched place of the file is listed again and kept as it was, while
\* another place is being geocoded
C16_Witness ==
    /\ pc = "geocode"
    /\ \E n \in DOMAIN ReadPlacesFromDisk(disk) \cap ObservedNames :
          /\ Enriched(disk.data[n])
          /\ n \in DOMAIN savedPlaces /\ n \notin DOMAIN geo
          /\ savedPlaces[n].address = disk.data[n].address
          /\ savedPlaces[n].latLng = disk.data[n].latLng

\* the labels a place should carry after the k first batches: the loaded
\* ones, then the label of each batch listing the name, in merge order
LabelsFirstAdded(n, k) ==
    LET loaded == ReadPlacesFromDisk(disk)
        old == IF n \in DOMAIN loaded THEN loaded[n].categories ELSE << >>
    IN old \o SelectSeq([s \in 1..k |-> ListName(s)],
                        LAMBDA l : /\ ~Includes(old, l)
                                   /\ \E s \in 1..k :
                                         /\ l = ListName(s)
                                         /\ n \in DOMAIN results[s].savedPlaces)

NoDuplicates(seq) == \A i, j \in 1..Len(seq) : seq[i] = seq[j] => i = j

\* C17: during the merge the categories of every place hold no label twice,
\* and the labels stand in the order in which they were first added.
C17_LabelsUniqueInFirstAddedOrder ==
    pc = "merge" =>
        \A n \in DOMAIN savedPlaces :
            /\ NoDuplicates(savedPlaces[n].categories)
            /\ savedPlaces[n].categories = LabelsFirstAdded(n, mergeIdx)

\* a name listed by the first and the second source carries both labels
C17_Witness ==
    /\ pc = "merge" /\ mergeIdx = NumSources
    /\ \E n \in DOMAIN savedPlaces :
          savedPlaces[n].categories = <<ListName(1), ListName(2)>>

\* the run has ended: the async main has resolved or rejected
RunEnded == pc \in {"done", "crashed"}

\* C18: when a run in which an error was raised has ended, the file holds the
\* registry as it stood in memory.
C18_ErrorStateIsPersisted ==
    RunEnded /\ errors # {} => disk = WrittenFile(savedPlaces)

\* C19: a run in which a phase raised an error, or the file could not be
\* written, does not end like a run that succeeded.
C19_FailureEndsRunAsFailure ==
    pc = "done" => errors = {}

\* C20 (as stated): in a run without error the file is written once, and no
\* write has happened before the midpoint phase is over.
C20_SingleWriteAtEnd ==
    errors = {} =>
        /\ pc = "done" => writes = 1
        /\ writes > 0 => pc \in {"finally", "done"}

\* C20: in a run without error the file is written exactly once, by the save
\* step that follows the geocoding phase and precedes the midpoint phase.
C20_SingleWriteBeforeMidpoint ==
    /\ [](errors = {} =>
            writes = IF pc \in {"midpoint", "reverse", "finally", "done"} THEN 1 ELSE 0)
    /\ [][writes' # writes /\ errors' = {} =>
            /\ pc = "save" /\ pc' = "midpoint"
            /\ disk' = WrittenFile(savedPlaces)]_vars

\* the center is being reverse-geocoded and the file already holds the registry
C20_Witness ==
    /\ pc = "reverse" /\ errors = {} /\ writes = 1
    /\ disk = WrittenFile(savedPlaces)
    /\ savedPlaces # EmptyPlaces

\* the place of each position of main in the order of the phases
PhaseRank ==
    [load |-> 0, reset |-> 1, launch |-> 2, scrape |-> 2, fetch |-> 3, merge |-> 4,
     select |-> 5, geocode |-> 6, save |-> 7, midpoint |-> 8, reverse |-> 9,
     catch |-> 10, finally |-> 10, done |-> 10, crashed |-> 10]

\* C21: main never goes back to an earlier phase, and a phase starts only when
\* the phase before it is over for all its items: the fetch starts with every
\* loaded flag reset, the merge with every source returned, the sweep with
\* every batch merged, the geocoding with the sweep done, the midpoint phase
\* with every lookup handled, the reverse lookup after the midpoint step.
C21_PhasesInOrder ==
    /\ [][PhaseRank[pc'] >= PhaseRank[pc]]_vars
    /\ [][pc = "reset" /\ pc' # pc =>
            \A n \in DOMAIN savedPlaces' : ~savedPlaces'[n].current]_vars
    /\ [][pc = "fetch" /\ pc' = "merge" => AllSettled]_vars
    /\ [][pc = "merge" /\ pc' # pc => mergeIdx = NumSources /\ pc' = "select"]_vars
    /\ [][pc = "select" /\ pc' = "geocode" =>
            \A n \in DOMAIN savedPlaces : savedPlaces[n].current]_vars
    /\ [](pc \in {"save", "midpoint", "reverse"} =>
            /\ AllSettled /\ mergeIdx = NumSources
            /\ \A n \in DOMAIN geo : geo[n] \in {"found", "failed"})
    /\ [][pc' = "reverse" /\ pc # pc' => pc = "midpoint" /\ solverCalls' # solverCalls]_vars
    /\ [][solverCalls' # solverCalls => pc = "midpoint" /\ pc' = "reverse"]_vars

\* the center is being reverse-geocoded in a run that has fetched, merged,
\* swept a place away and geocoded another
C21_Witness ==
    /\ pc = "reverse"
    /\ AllSettled /\ mergeIdx = NumSources
    /\ \E n \in DOMAIN geo : geo[n] = "found"
    /\ \E n \in DOMAIN geo : geo[n] = "failed"

\* C22: a places file that is absent or cannot be read or parsed gives an
\* empty registry, and the run goes on to the reset and the launch.
C22_UnreadableFileGivesEmptyRegistry ==
    /\ [](disk.state # "ok" /\ pc \in {"reset", "launch", "scrape"} =>
            savedPlaces = EmptyPlaces)
    /\ [][pc = "load" /\ pc' # pc => pc' = "reset" /\ errors' = {}]_vars

\* a run whose file was absent or corrupt has scraped and merged places
C22_Witness ==
    /\ disk.state \in {"absent", "corrupt"}
    /\ pc = "select"
    /\ savedPlaces # EmptyPlaces

\* a number of 1e-7 degrees rounded to the nearest 1e-6 degree
Round6(x) == IF x < 0 THEN -((((-x) + 5) \div 10) * 10) ELSE ((x + 5) \div 10) * 10

Rounded(coord) == <<Round6(coord[1]), Round6(coord[2])>>

\* C25: the coordinates given to the solver are the rounded coordinates of
\* the included places that have one: each of these is given, nothing else
\* is, and none is given twice.
C25_SolverInputIsRoundedCoordinateSet ==
    pc = "reverse" =>
        \A call \in solverCalls :
            LET included == Coordinates(savedPlaces, call.excludeClosed)
                input == call.coordinates
            IN /\ {input[i] : i \in DOMAIN input} =
                    {Rounded(included[n]) : n \in DOMAIN included}
               /\ \A i, j \in DOMAIN input : input[i] = input[j] => i = j

\* C26: centerOfMinimumDistance is called, and its result reverse-geocoded,
\* only with a coordinate set that is not empty, so its (0,0) return is never
\* taken; when no included place has a coordinate the phase ends without a
\* call.
C26_SolverCalledOnlyWithCoordinates ==
    /\ [](\A call \in solverCalls : CenterCase(call.coordinates) # "sentinel")
    /\ [](pc = "reverse" => solverCalls # {})
    /\ [][pc = "midpoint" /\ pc' = "finally" =>
            /\ solverCalls' = {}
            /\ \E excludeClosed \in BOOLEAN :
                  DOMAIN Coordinates(savedPlaces, excludeClosed) = {}]_vars

\* a run without error ends with places in the registry, none of them with a
\* coordinate, and no call of the solver
C26_Witness ==
    /\ pc = "done" /\ errors = {}
    /\ savedPlaces # EmptyPlaces
    /\ solverCalls = {}

\* the places that lack an address or a coordinate
LackingData(places) == {n \in DOMAIN places : ~Enriched(places[n])}

\* the steps a lookup goes through
LookupSteps == {<<"queued", "running">>, <<"running", "found">>, <<"running", "failed">>}

\* C24 (as stated): when the sweep is done a lookup is set up for exactly the
\* places that lack an address or a coordinate.
C24_LookupForEveryPlaceLackingData ==
    [][pc = "select" /\ pc' # pc => DOMAIN geo' = LackingData(savedPlaces)]_vars

\* C24: in a run that has an API key a lookup is set up for exactly the
\* places that lack an address or a coordinate after the sweep, each lookup
\* is made once and all are made before the phase ends; a place that has
\* both is not looked up and stays as it is. Without an API key no lookup is
\* made and every place stays as it is.
C24_LookupForEveryPlaceLackingDataWithApiKey ==
    /\ [][pc = "select" /\ pc' # pc =>
            DOMAIN geo' = IF apiKey THEN LackingData(savedPlaces) ELSE {}]_vars
    /\ [][pc = "geocode" =>
            /\ DOMAIN geo' = DOMAIN geo
            /\ \A n \in DOMAIN geo :
                  geo'[n] # geo[n] => <<geo[n], geo'[n]>> \in LookupSteps]_vars
    /\ [](pc = "save" => \A n \in DOMAIN geo : geo[n] \in {"found", "failed"})
    /\ [][(pc \in {"select", "geocode"}) =>
            \A n \in DOMAIN savedPlaces \ DOMAIN geo' :
                /\ n \in DOMAIN savedPlaces'
                /\ savedPlaces'[n] = savedPlaces[n]]_vars

\* the lookups are over: a place that lacked data was looked up, and a place
\* the file held with both fields was not and is as the file held it
C24_Witness ==
    /\ pc = "save" /\ apiKey
    /\ \E n \in DOMAIN geo : geo[n] = "found"
    /\ \E m \in DOMAIN savedPlaces \ DOMAIN geo :
          /\ m \in DOMAIN ReadPlacesFromDisk(disk)
          /\ Enriched(savedPlaces[m])
          /\ savedPlaces[m].latLng = disk.data[m].latLng
          /\ savedPlaces[m].address = disk.data[m].address

\* C23: at most GeocodeLimit lookups are in flight at any time; lookups are
\* in flight only in the geocoding phase, when every fetch has returned; and
\* the limit does not depend on the fetch cap: a queued lookup starts only
\* with fewer than GeocodeLimit in flight, and can start whenever that is so.
C23_AtMostTenLookupsInFlight ==
    /\ [](Cardinality(GeoRunning) <= GeocodeLimit)
    /\ [](GeoRunning # {} => pc = "geocode" /\ AllSettled)
    /\ [][\A n \in DOMAIN geo :
            (geo[n] = "queued" /\ geo'[n] = "running") =>
                Cardinality(GeoRunning) < GeocodeLimit]_vars
    /\ [](pc = "geocode" /\ GeoQueued # {} /\ Cardinality(GeoRunning) < GeocodeLimit =>
            ENABLED (\E n \in DOMAIN geo : GeocodeStart(n)))

\* ten lookups are in flight and one more waits, with a smaller fetch cap
C23_Witness ==
    /\ pc = "geocode"
    /\ Cardinality(GeoRunning) = GeocodeLimit
    /\ GeoQueued # {}
    /\ maxTabs < GeocodeLimit

\* C27: the solver returns (0,0) for an empty input, and for an input of one
\* point it returns that point itself, without a seed and without running
\* any iteration.
C27_EmptyAndSinglePointReturnAtOnce ==
    /\ solver.pc = "return" /\ Len(solver.coords) = 0 =>
          /\ solver.result = <<0, 0>>
          /\ solver.iterations = 0 /\ solver.seed = NoVec
    /\ solver.pc = "return" /\ Len(solver.coords) = 1 =>
          /\ solver.result = solver.coords[1]
          /\ solver.iterations = 0 /\ solver.seed = NoVec

\* the solver has returned the single point it was given
C27_Witness ==
    /\ solver.pc = "return"
    /\ solver.coords = <<(<<Degrees(60), Degrees(180)>>)>>
    /\ solver.result = <<Degrees(60), Degrees(180)>>

\* the unit vectors of the coordinates sum to the zero vector
ZeroSum(coords) == VectorSum(coords, Len(coords)) = <<0, 0, 0>>

\* C28: for an input whose unit vectors sum to the zero vector, the seed of
\* the solver is a vector of numbers and the result has a finite latitude
\* and longitude.
C28_ZeroSumGivesFiniteResult ==
    Len(solver.coords) >= 2 /\ ZeroSum(solver.coords) =>
        /\ solver.pc \in {"loop", "exit", "return"} => ~IsNaNVec(solver.seed)
        /\ solver.pc = "return" =>
              ~IsNaN(solver.result[1]) /\ ~IsNaN(solver.result[2])

\* the angle between two unit vectors
AngleBetween(a, b) == Acos(Clamp(Dot(a, b), -One, One))

\* C29: the loop body runs at most DefaultMaxIter times; the loop goes on to
\* a new estimate only when that estimate is not within tol of the previous
\* one and fewer than DefaultMaxIter iterations have run; it ends at
\* the first iteration whose new estimate is within tol of the previous one,
\* or else after DefaultMaxIter iterations; and every call returns, with
\* the estimate it holds when the loop ends, whatever that estimate is.
C29_LoopRunsAtMostMaxIterTimes ==
    /\ [](solver.iterations <= DefaultMaxIter)
    /\ [][(solver.pc = "loop" /\ solver'.pc = "loop") =>
            /\ solver.iterations < DefaultMaxIter
            /\ solver'.iterations = solver.iterations + 1
            /\ solver'.p = PNext(solver.p, solver.coords)
            /\ ~(~IsNaNVec(solver.p) /\ AngleBetween(solver.p, solver'.p) < 1)]_vars
    /\ [][(solver.pc = "loop" /\ solver'.pc = "exit") =>
            /\ solver'.p = solver.p
            /\ \/ /\ solver'.iterations = solver.iterations + 1
                  /\ ~IsNaNVec(solver.p)
                  /\ AngleBetween(solver.p, PNext(solver.p, solver.coords)) < 1
               \/ /\ solver'.iterations = solver.iterations
                  /\ solver.iterations = DefaultMaxIter]_vars
    /\ [](solver.pc = "return" /\ Len(solver.coords) >= 2 =>
            solver.result = VecToLl(solver.p))
    /\ <>(solver.pc = "return")

\* the loop has run DefaultMaxIter times without an estimate within tol of
\* the one before, and the solver has returned
C29_Witness ==
    /\ solver.pc = "return"
    /\ solver.iterations = DefaultMaxIter

\* the sum of the great-circle distances, on the unit sphere, from the
\* point of vector v to the first i coordinates
RECURSIVE SumOfDistances(_, _, _)
SumOfDistances(v, coords, i) ==
    IF IsNaNVec(v) THEN NaN
    ELSE IF i = 0 THEN 0
    ELSE SumOfDistances(v, coords, i - 1) + AngleBetween(v, LlToVec(coords[i]))

\* what the rounding of the result to whole degrees and of the distances to
\* milliradians can add to a sum of distances
RoundingSlack(coords) == 15 * Len(coords)

\* C30: for a non-empty input the sum of the great-circle distances from the
\* result to the coordinates is at most the sum from the seed, the normalised
\* sum of the unit vectors of the coordinates.
C30_ResultNoFartherThanSeed ==
    solver.pc = "return" /\ Len(solver.coords) >= 1 =>
        LET fromResult == SumOfDistances(LlToVec(solver.result), solver.coords,
                                         Len(solver.coords))
            fromSeed == SumOfDistances(SeedOf(solver.coords), solver.coords,
                                       Len(solver.coords))
        IN /\ ~IsNaN(solver.result[1]) /\ ~IsNaN(fromSeed)
           /\ fromResult <= fromSeed + RoundingSlack(solver.coords)

\* C31: a source makes at least one and at most DefaultMaxRetries attempts:
\* its attempt number stays within 1..DefaultMaxRetries while it is fetched
\* and it returns only from a running attempt; an attempt that resolves ends
\* the fetch, and a source that has returned makes no attempt again; a new
\* attempt starts only from the delay that follows a rejected attempt; and
\* the delay follows a rejected attempt only when it is not the last one,
\* the last rejected attempt returning at once.
C31_AttemptsWithinRetryBudget ==
    /\ [](\A s \in Sources :
            /\ attempt[s] <= DefaultMaxRetries
            /\ InFlight(s) => attempt[s] >= 1)
    /\ [][\A s \in Sources :
            /\ (status[s] # "done" /\ status'[s] = "done") => status[s] = "running"
            /\ status[s] = "done" => status'[s] = "done" /\ attempt'[s] = 0
            /\ (status[s] = "running" /\ outcome'[s] # "threw" /\ status'[s] # "running") =>
                  status'[s] = "done"
            /\ (InFlight(s) /\ attempt'[s] = attempt[s] + 1) =>
                  /\ status[s] = "waiting" /\ outcome[s] = "threw"
                  /\ status'[s] = "running"
            /\ (status[s] = "waiting" /\ status'[s] # "waiting") =>
                  status'[s] = "running" /\ attempt'[s] = attempt[s] + 1
            /\ (status[s] # "waiting" /\ status'[s] = "waiting") =>
                  /\ status[s] = "running" /\ outcome'[s] = "threw"
                  /\ attempt[s] < DefaultMaxRetries
            /\ (status[s] = "running" /\ outcome'[s] = "threw"
                    /\ attempt[s] = DefaultMaxRetries /\ status'[s] # "running") =>
                  status'[s] = "done"]_vars

\* a source has returned after its last attempt was rejected, and another
\* one has returned from its first attempt
C31_Witness ==
    /\ pc = "fetch"
    /\ \E s, t \in Sources :
          /\ status[s] = "done" /\ outcome[s] = "threw"
          /\ status[t] = "done" /\ outcome[t] = "scraped"
          /\ results[t] # EmptyBatch

\* C32: when every call returns or fails, a run that has launched the
\* browser goes on to its end with the browser closed, whether an error was
\* raised in the try block or not; and the browser is closed nowhere but in
\* the finally block.
C32_LaunchedBrowserIsClosed ==
    /\ browserOpen ~> (pc = "done" /\ ~browserOpen)
    /\ [](pc = "done" => ~browserOpen)
    /\ [][(browserOpen /\ ~browserOpen') => (pc = "finally" /\ pc' = "done")]_vars

\* a run in which an error was caught has ended with the browser closed
C32_Witness ==
    /\ pc = "done" /\ ~browserOpen
    /\ "phase" \in errors

\* a source has returned an empty batch
SomeBatchEmpty == \E s \in Sources : results[s] = EmptyBatch

\* the places of the file that no batch of the run mentions
Unmentioned(file) == DOMAIN ReadPlacesFromDisk(file) \ ObservedNames

\* C33 as stated: at the end of a run in which a source returned an empty
\* batch and no error was raised, no place that was loaded and that no batch
\* mentions is in the file.
C33_UnmentionedPlacesGoneFromFile ==
    pc = "done" /\ errors \cap {"launch", "phase"} = {} /\ SomeBatchEmpty =>
        Unmentioned(disk) = {}

\* C33: in a run in which a source returned an empty batch, the sweep deletes
\* every loaded place that no batch mentions, whatever address and
\* coordinate it holds; no later phase brings a place back; and the file the
\* run writes holds none of them: when the run has ended without an error
\* in a phase and has written the file, the file holds observed names only.
C33_UnmentionedPlacesGoneFromWrittenFile ==
    /\ [](pc = "select" /\ SomeBatchEmpty =>
            DOMAIN savedPlaces \cap Unmentioned(disk) = {})
    /\ [][(pc \in {"select", "geocode", "save", "midpoint", "reverse"}) =>
            DOMAIN savedPlaces' \subseteq DOMAIN savedPlaces]_vars
    /\ [][(pc = "save" /\ writes' = writes + 1) => disk'.data = savedPlaces]_vars
    /\ [](pc = "done" /\ errors \cap {"launch", "phase"} = {} /\ writes = 1
            /\ SomeBatchEmpty => Unmentioned(disk) = {})

\* the sweep has deleted an enriched place of the file, in a run in which a
\* source returned an empty batch
C33_Witness ==
    /\ pc = "select" /\ disk.state = "ok"
    /\ \E s \in Sources : results[s] = EmptyBatch
    /\ \E n \in Unmentioned(disk) :
          /\ Enriched(disk.data[n])
          /\ n \notin DOMAIN savedPlaces

\* ------------------------------------------------------------------ C34
\* lines 836-840: push appends, so the categories before are a prefix of
\* the categories after
IsPrefix(a, b) == Len(a) <= Len(b) /\ SubSeq(b, 1, Len(a)) = a

\* C34: a place of the file an earlier run left keeps, as long as it is in
\* the registry of the next run and in the file that run writes, every
\* label the earlier run recorded, in the order recorded; labels are only
\* added behind them
C34_CategoriesOnlyGrowAcrossRuns ==
    earlier.run = 1 =>
        LET before == ReadPlacesFromDisk(earlier.file)
            after == ReadPlacesFromDisk(disk)
        IN /\ \A n \in DOMAIN before \cap DOMAIN savedPlaces :
                  IsPrefix(before[n].categories, savedPlaces[n].categories)
           /\ \A n \in DOMAIN before \cap DOMAIN after :
                  IsPrefix(before[n].categories, after[n].categories)

\* a second run has ended and written a place that the first run wrote
\* with the label of a list which did not show the place in the second run
C34_Witness ==
    /\ earlier.run = 1 /\ pc = "done" /\ writes = 1
    /\ \E n \in DOMAIN ReadPlacesFromDisk(earlier.file) \cap DOMAIN ReadPlacesFromDisk(disk) :
          \E s \in Sources :
              /\ n \in DOMAIN earlier.results[s].savedPlaces
              /\ n \notin DOMAIN results[s].savedPlaces
              /\ Includes(disk.data[n].categories, ListName(s))

\* ------------------------------------------------------------------ C35
\* the sources that hold a slot of the limiter in a state
SlotHolders(st) == {s \in Sources : st[s] \in {"running", "waiting"}}

\* C35: in parallel mode the sources that are fetching or waiting for the
\* next attempt are never more than maxTabs; a queued source starts only
\* while fewer than maxTabs sources hold a slot; a source stops holding its
\* slot only by returning its batch, after an attempt that did not throw or
\* after its last attempt, and a waiting source goes nowhere but into its
\* next attempt.
C35_WaitingSourceKeepsItsSlot ==
    /\ [](ParallelMode => Cardinality(SlotHolders(status)) <= maxTabs)
    /\ [][ParallelMode =>
            \A s \in Sources :
                /\ (status[s] = "queued" /\ status'[s] # "queued") =>
                       /\ status'[s] = "running"
                       /\ Cardinality(SlotHolders(status)) < maxTabs
                /\ (s \in SlotHolders(status) /\ s \notin SlotHolders(status')) =>
                       /\ status[s] = "running" /\ status'[s] = "done"
                       /\ outcome'[s] = "threw" => attempt[s] = DefaultMaxRetries
                /\ (status[s] = "waiting" /\ status'[s] # "waiting") =>
                       status'[s] = "running"]_vars

\* every slot is taken, one of them by a source waiting for its second
\* attempt, and a source is kept in the queue
C35_Witness ==
    /\ ParallelMode /\ pc = "fetch"
    /\ Cardinality(SlotHolders(status)) = maxTabs
    /\ \E s \in Sources : status[s] = "waiting"
    /\ \E s \in Sources : status[s] = "queued"

\* ------------------------------------------------------------------ C36
RECURSIVE PagesOf(_)
\* the pages open in the browser that the attempts of sources 1..n opened
PagesOf(n) == IF n = 0 THEN 0 ELSE pages[n] + PagesOf(n - 1)

OpenPages == PagesOf(NumSources)

\* C36: a source that is not inside an attempt has no page open, so the
\* pages open are never more than the attempts in progress.
C36_PagesClosedWhenAttemptEnds ==
    /\ \A s \in Sources : status[s] # "running" => pages[s] = 0
    /\ OpenPages <= Cardinality({s \in Sources : status[s] = "running"})

\* ------------------------------------------------------------------ C37
\* C37: the save of the catch block writes the registry as it stands and
\* leaves it as it is; the sweep has not run, so after that save of a run
\* whose error was raised before the merge the file holds the loaded places,
\* each with current false.
C37_ErrorPathSavesUnsweptRegistry ==
    /\ [][(pc = "catch" /\ writes' = writes + 1) =>
            /\ disk' = WrittenFile(savedPlaces)
            /\ savedPlaces' = savedPlaces]_vars
    /\ []("phase" \in errors /\ writes = 1 =>
            /\ disk = WrittenFile(savedPlaces)
            /\ \A n \in DOMAIN disk.data : ~disk.data[n].current)

\* a run has ended after the save of its catch block, and the file holds a
\* place with current false that no batch of the run mentions
C37_Witness ==
    /\ pc = "done" /\ "phase" \in errors /\ writes = 1
    /\ \E n \in DOMAIN disk.data \ ObservedNames : ~disk.data[n].current

\* ------------------------------------------------------------------ C38
\* the places the run before dropped because their lookup failed
DroppedEarlier == {n \in DOMAIN earlier.geo : earlier.geo[n] = "failed"}

\* the sources whose batch of this run lists the place
ListedBy(n) == {s \in Sources : n \in DOMAIN results[s].savedPlaces}

\* the merge and the sweep of this run are over
AfterMerge == pc \in {"select", "geocode", "save", "midpoint", "reverse", "finally", "done"}

\* the geocoding phase of this run is over
AfterGeocoding == pc \in {"save", "midpoint", "reverse", "finally", "done"}

\* C38 as stated: a place dropped in the run before because its lookup
\* failed, and listed by a source of this run, is not in the file this run
\* loads, so the merge creates it, and a lookup has been issued for it when
\* the geocoding phase of this run is over.
C38_DroppedPlaceIsCreatedAndLookedUpAgain ==
    earlier.run = 1 =>
        \A n \in DroppedEarlier :
            ListedBy(n) # {} =>
                /\ n \notin DOMAIN ReadPlacesFromDisk(earlier.file)
                /\ AfterGeocoding => n \in DOMAIN geo

\* C38: when the run before has written its file, a place it dropped
\* because its lookup failed is not in that file; if a source of this run
\* lists it, the merge creates it as a place without address and coordinate
\* that carries the labels of this run only; and if this run has an API key
\* a lookup has been issued for it when the geocoding phase is over.
C38_DroppedPlaceIsCreatedAndLookedUpAgainWithApiKey ==
    earlier.run = 1 /\ earlier.writes = 1 =>
        \A n \in DroppedEarlier :
            /\ n \notin DOMAIN ReadPlacesFromDisk(earlier.file)
            /\ ListedBy(n) # {} /\ pc = "select" =>
                  /\ n \in DOMAIN savedPlaces
                  /\ ~Enriched(savedPlaces[n])
                  /\ LabelSet(savedPlaces[n].categories) = {ListName(s) : s \in ListedBy(n)}
            /\ ListedBy(n) # {} /\ AfterGeocoding /\ apiKey => n \in DOMAIN geo

\* the second run is looking up a place that the first run dropped after a
\* failed lookup and left out of the file it wrote
C38_Witness ==
    /\ earlier.run = 1 /\ earlier.writes = 1 /\ pc = "geocode"
    /\ \E n \in DroppedEarlier :
          /\ ListedBy(n) # {}
          /\ n \notin DOMAIN ReadPlacesFromDisk(earlier.file)
          /\ n \in DOMAIN geo /\ geo[n] = "running"

\* ------------------------------------------------------------------ C39
\* every source has returned the batch it returned in the run before
SameBatches == results = earlier.results

\* a place looked up in both runs got the same answer: no result twice, or
\* the same address and coordinate
SameAnswers ==
    \A n \in DOMAIN geo \cap DOMAIN earlier.geo :
        /\ geo[n] = earlier.geo[n]
        /\ geo[n] = "found" =>
              /\ savedPlaces[n].address = earlier.places[n].address
              /\ savedPlaces[n].latLng = earlier.places[n].latLng

\* the places the run before enriched by a lookup
EnrichedEarlier == {n \in DOMAIN earlier.geo : earlier.geo[n] = "found"}

\* C39 as stated: when two runs have gone through all their phases and in
\* the second every source returned the same batch and every lookup gave
\* the same answer as in the first, the file is as the first run left it,
\* and no lookup was issued for a place that the first run enriched.
C39_SecondRunChangesNothing ==
    earlier.run = 1 /\ earlier.ended = "done" /\ pc = "done"
        /\ SameBatches /\ SameAnswers =>
        /\ disk = earlier.file
        /\ EnrichedEarlier \cap DOMAIN geo = {}

\* C39: when the first run has written its file, the second run issues no
\* lookup for a place the first run enriched; and when the second run, with
\* an API key if and only if the first run had one, has ended after every
\* source returned the same batch and every lookup gave the same answer,
\* the file is as the first run left it.
C39_SecondRunAfterWrittenFileChangesNothing ==
    earlier.run = 1 /\ earlier.writes = 1 =>
        /\ EnrichedEarlier \cap DOMAIN geo = {}
        /\ pc = "done" /\ apiKey = earlier.apiKey /\ SameBatches /\ SameAnswers =>
              disk = earlier.file

\* a second run has ended and has written again the file of the first run,
\* which holds a place the first run enriched; a place whose lookup failed
\* in the first run was looked up again, a place enriched was not
C39_Witness ==
    /\ earlier.run = 1 /\ earlier.writes = 1 /\ pc = "done" /\ writes = 1
    /\ apiKey = earlier.apiKey /\ SameBatches /\ SameAnswers
    /\ disk = earlier.file
    /\ \E n \in EnrichedEarlier : n \in DOMAIN disk.data /\ n \notin DOMAIN geo
    /\ \E n \in DroppedEarlier : n \in DOMAIN geo
====
